---- MODULE Spec2Model ----
(***************************************************************************)
(* Estimator configuration resolution of the SageMaker Python SDK:         *)
(* RLEstimator and MXNet construction, and the reverse mapping from a      *)
(* training-job description back to constructor arguments.                 *)
(*                                                                         *)
(* Python strings that the code formats, splits, compares or matches with  *)
(* a regular expression are sequences of one-character strings; strings    *)
(* that are only used as keys or labels are TLA+ strings.                  *)
(***************************************************************************)
EXTENDS Integers, Sequences, FiniteSets, TLC

s_coach == <<"c", "o", "a", "c", "h">>
s_ray == <<"r", "a", "y">>
s_tensorflow == <<"t", "e", "n", "s", "o", "r", "f", "l", "o", "w">>
s_mxnet == <<"m", "x", "n", "e", "t">>
s_pytorch == <<"p", "y", "t", "o", "r", "c", "h">>
s_chainer == <<"c", "h", "a", "i", "n", "e", "r">>
s_TF == <<"T", "F">>
s_v0_10_1 == <<"0", ".", "1", "0", ".", "1">>
s_v0_10 == <<"0", ".", "1", "0">>
s_v0_11_0 == <<"0", ".", "1", "1", ".", "0">>
s_v0_11_1 == <<"0", ".", "1", "1", ".", "1">>
s_v0_11 == <<"0", ".", "1", "1">>
s_v0_5_3 == <<"0", ".", "5", ".", "3">>
s_v0_5 == <<"0", ".", "5">>
s_v0_6_5 == <<"0", ".", "6", ".", "5">>
s_v0_6 == <<"0", ".", "6">>
s_v1_11 == <<"1", ".", "1", "1">>
s_v1_12 == <<"1", ".", "1", "2">>
s_v1_3 == <<"1", ".", "3">>
s_v0_12 == <<"0", ".", "1", "2">>
s_v1_0 == <<"1", ".", "0">>
s_v1_2_1 == <<"1", ".", "2", ".", "1">>
s_v1_4 == <<"1", ".", "4">>
s_v1_10 == <<"1", ".", "1", "0">>
s_v2_0 == <<"2", ".", "0">>
s_v1_3_1 == <<"1", ".", "3", ".", "1">>
s_v10_0 == <<"1", "0", ".", "0">>
s_cpu == <<"c", "p", "u">>
s_gpu == <<"g", "p", "u">>
s_py2 == <<"p", "y", "2">>
s_py3 == <<"p", "y", "3">>
s_sagemaker_ == <<"s", "a", "g", "e", "m", "a", "k", "e", "r", "-">>
s_rl_ == <<"r", "l", "-">>

(***************************************************************************)
(* Python values.  A value carries its type; None and the empty string are *)
(* the falsy ones among those the constructors receive.                    *)
(***************************************************************************)
PyNone == [t |-> "NoneType", v |-> <<>>]
PyStr(s) == [t |-> "str", v |-> s]
Truthy(x) == x.t # "NoneType" /\ ~(x.t = "str" /\ x.v = <<>>)

NoErr == [type |-> "none", template |-> "", args |-> <<>>]
Raise(type, template, args) == [type |-> type, template |-> template, args |-> args]
Raised(e) == e.type # "none"

\* separator.join(items), kept as the sequence of its pieces; the backquotes of
\* the messages are written as apostrophes
RECURSIVE Join(_, _)
Join(sep, items) ==
    IF Len(items) = 0 THEN <<>>
    ELSE IF Len(items) = 1 THEN items
    ELSE <<Head(items), sep>> \o Join(sep, Tail(items))

(***************************************************************************)
(* sagemaker/rl/estimator.py: module constants and enumerations            *)
(***************************************************************************)
SAGEMAKER_ESTIMATOR == "sagemaker_estimator"
SAGEMAKER_ESTIMATOR_VALUE == "RLEstimator"
SAGEMAKER_OUTPUT_LOCATION == "sagemaker_s3_output"
PYTHON_VERSION == s_py3

\* the table with the coach 0.11.1 row copied from the 0.11.0 row above it
TOOLKIT_FRAMEWORK_VERSION_MAP_copied_row ==
    (s_coach :> (   (s_v0_10_1 :> (s_tensorflow :> s_v1_11))
                 @@ (s_v0_10   :> (s_tensorflow :> s_v1_11))
                 @@ (s_v0_11_0 :> ((s_tensorflow :> s_v1_11) @@ (s_mxnet :> s_v1_3)))
                 @@ (s_v0_11_1 :> ((s_tensorflow :> s_v1_11) @@ (s_mxnet :> s_v1_3)))
                 @@ (s_v0_11   :> ((s_tensorflow :> s_v1_12) @@ (s_mxnet :> s_v1_3)))))
    @@
    (s_ray   :> (   (s_v0_5_3 :> (s_tensorflow :> s_v1_11))
                 @@ (s_v0_5   :> (s_tensorflow :> s_v1_11))
                 @@ (s_v0_6_5 :> (s_tensorflow :> s_v1_12))
                 @@ (s_v0_6   :> (s_tensorflow :> s_v1_12))))

TOOLKIT_FRAMEWORK_VERSION_MAP ==
    (s_coach :> (   (s_v0_10_1 :> (s_tensorflow :> s_v1_11))
                 @@ (s_v0_10   :> (s_tensorflow :> s_v1_11))
                 @@ (s_v0_11_0 :> ((s_tensorflow :> s_v1_11) @@ (s_mxnet :> s_v1_3)))
                 @@ (s_v0_11_1 :> (s_tensorflow :> s_v1_12))
                 @@ (s_v0_11   :> ((s_tensorflow :> s_v1_12) @@ (s_mxnet :> s_v1_3)))))
    @@
    (s_ray   :> (   (s_v0_5_3 :> (s_tensorflow :> s_v1_11))
                 @@ (s_v0_5   :> (s_tensorflow :> s_v1_11))
                 @@ (s_v0_6_5 :> (s_tensorflow :> s_v1_12))
                 @@ (s_v0_6   :> (s_tensorflow :> s_v1_12))))

COACH == [t |-> "RLToolkit", v |-> s_coach]
RAY == [t |-> "RLToolkit", v |-> s_ray]
RLToolkit == {COACH, RAY}

TENSORFLOW == [t |-> "RLFramework", v |-> s_tensorflow]
MXNET == [t |-> "RLFramework", v |-> s_mxnet]
RLFramework == {TENSORFLOW, MXNET}

\* Docker images: <registry>/<repo>:<tag>
NoImage == [t |-> "NoneType", registry |-> "", repo |-> <<>>, tag |-> <<>>]
Image(registry, repo, tag) == [t |-> "str", registry |-> registry, repo |-> repo, tag |-> tag]
HasImage(image) == image.t # "NoneType"

\* metric definitions: None or a list of {Name, Regex}
NoMetrics == [t |-> "NoneType", v |-> <<>>]
MetricList(l) == [t |-> "list", v |-> l]
HasMetrics(m) == m.t # "NoneType" /\ Len(m.v) > 0

(***************************************************************************)
(* RLEstimator class methods                                               *)
(***************************************************************************)
_validate_framework_format(framework) ==
    IF Truthy(framework) /\ framework \notin RLFramework
    THEN Raise("ValueError", "Invalid type: {}, valid RL frameworks types are: [{}]",
               <<framework.v>>)
    ELSE NoErr

_validate_toolkit_format(toolkit) ==
    IF Truthy(toolkit) /\ toolkit \notin RLToolkit
    THEN Raise("ValueError", "Invalid type: {}, valid RL toolkits types are: [{}]",
               <<toolkit.v>>)
    ELSE NoErr

\* the same with the toolkit_version test repeating the toolkit name
ArgNames_repeating_toolkit(toolkit, toolkit_version, framework, wanted) ==
       (IF Truthy(toolkit) = wanted THEN <<"toolkit">> ELSE <<>>)
    \o (IF Truthy(toolkit_version) = wanted THEN <<"toolkit">> ELSE <<>>)
    \o (IF Truthy(framework) = wanted THEN <<"framework">> ELSE <<>>)

\* the names appended to not_found_args / found_args, in the code's order
ArgNames(toolkit, toolkit_version, framework, wanted) ==
       (IF Truthy(toolkit) = wanted THEN <<"toolkit">> ELSE <<>>)
    \o (IF Truthy(toolkit_version) = wanted THEN <<"toolkit_version">> ELSE <<>>)
    \o (IF Truthy(framework) = wanted THEN <<"framework">> ELSE <<>>)

\* the same without the image_name test: the three arguments are always required
_validate_images_args_always_required(toolkit, toolkit_version, framework, image_name) ==
    IF Raised(_validate_toolkit_format(toolkit))
    THEN [err |-> _validate_toolkit_format(toolkit), warnings |-> <<>>]
    ELSE IF Raised(_validate_framework_format(framework))
    THEN [err |-> _validate_framework_format(framework), warnings |-> <<>>]
    ELSE LET not_found_args == ArgNames(toolkit, toolkit_version, framework, FALSE)
         IN  IF Len(not_found_args) > 0
             THEN [err |-> Raise("AttributeError",
                                 "Please provide '{}' or 'image_name' parameter.",
                                 Join("', '", not_found_args)),
                   warnings |-> <<>>]
             ELSE [err |-> NoErr, warnings |-> <<>>]

\* returns the error raised (or NoErr) and the warnings logged
_validate_images_args(toolkit, toolkit_version, framework, image_name) ==
    IF Raised(_validate_toolkit_format(toolkit))
    THEN [err |-> _validate_toolkit_format(toolkit), warnings |-> <<>>]
    ELSE IF Raised(_validate_framework_format(framework))
    THEN [err |-> _validate_framework_format(framework), warnings |-> <<>>]
    ELSE IF ~HasImage(image_name)
    THEN LET not_found_args == ArgNames(toolkit, toolkit_version, framework, FALSE)
         IN  IF Len(not_found_args) > 0
             THEN [err |-> Raise("AttributeError",
                                 "Please provide '{}' or 'image_name' parameter.",
                                 Join("', '", not_found_args)),
                   warnings |-> <<>>]
             ELSE [err |-> NoErr, warnings |-> <<>>]
    ELSE LET found_args == ArgNames(toolkit, toolkit_version, framework, TRUE)
         IN  IF Len(found_args) > 0
             THEN [err |-> NoErr,
                   warnings |-> << [template |-> "Parameter 'image_name' is specified, '%s' are going to be ignored when choosing the image.",
                                    args |-> Join("', '", found_args)] >>]
             ELSE [err |-> NoErr, warnings |-> <<>>]

\* the same without the framework lookup: any framework of a known version passes
_is_combination_supported_ignoring_framework(toolkit, toolkit_version, framework) ==
    IF toolkit.t = "str" /\ toolkit.v \in DOMAIN TOOLKIT_FRAMEWORK_VERSION_MAP
    THEN LET supported_versions == TOOLKIT_FRAMEWORK_VERSION_MAP[toolkit.v]
         IN  /\ DOMAIN supported_versions # {}
             /\ toolkit_version.t = "str"
             /\ toolkit_version.v \in DOMAIN supported_versions
             /\ DOMAIN supported_versions[toolkit_version.v] # {}
    ELSE FALSE

\* the same with a toolkit of None taken as nothing to check
_is_combination_supported_unless_undecoded(toolkit, toolkit_version, framework) ==
    IF toolkit.t = "NoneType" THEN TRUE
    ELSE IF toolkit.t = "str" /\ toolkit.v \in DOMAIN TOOLKIT_FRAMEWORK_VERSION_MAP
    THEN LET supported_versions == TOOLKIT_FRAMEWORK_VERSION_MAP[toolkit.v]
         IN  IF DOMAIN supported_versions # {}
                /\ toolkit_version.t = "str"
                /\ toolkit_version.v \in DOMAIN supported_versions
             THEN LET supported_frameworks == supported_versions[toolkit_version.v]
                  IN  /\ DOMAIN supported_frameworks # {}
                      /\ framework.t = "str"
                      /\ framework.v \in DOMAIN supported_frameworks
                      /\ supported_frameworks[framework.v] # <<>>
             ELSE FALSE
    ELSE FALSE

\* dict.get(key, None) followed by a truth test, three levels deep
_is_combination_supported(toolkit, toolkit_version, framework) ==
    IF toolkit.t = "str" /\ toolkit.v \in DOMAIN TOOLKIT_FRAMEWORK_VERSION_MAP
    THEN LET supported_versions == TOOLKIT_FRAMEWORK_VERSION_MAP[toolkit.v]
         IN  IF DOMAIN supported_versions # {}
                /\ toolkit_version.t = "str"
                /\ toolkit_version.v \in DOMAIN supported_versions
             THEN LET supported_frameworks == supported_versions[toolkit_version.v]
                  IN  /\ DOMAIN supported_frameworks # {}
                      /\ framework.t = "str"
                      /\ framework.v \in DOMAIN supported_frameworks
                      /\ supported_frameworks[framework.v] # <<>>
             ELSE FALSE
    ELSE FALSE

_validate_toolkit_support(toolkit, toolkit_version, framework) ==
    IF ~_is_combination_supported(toolkit, toolkit_version, framework)
    THEN Raise("AttributeError", "Provided '{}-{}' and '{}' combination is not supported.",
               <<toolkit.v, toolkit_version.v, framework.v>>)
    ELSE NoErr

\* the defaults of Coach for every toolkit
default_metric_definitions_of_coach(toolkit) ==
    MetricList(<< [Name |-> "reward-training", Regex |-> "^Training>.*Total reward=(.*?),"],
                  [Name |-> "reward-testing", Regex |-> "^Testing>.*Total reward=(.*?),"] >>)

default_metric_definitions(toolkit) ==
    IF toolkit = COACH
    THEN MetricList(<< [Name |-> "reward-training", Regex |-> "^Training>.*Total reward=(.*?),"],
                       [Name |-> "reward-testing", Regex |-> "^Testing>.*Total reward=(.*?),"] >>)
    ELSE IF toolkit = RAY
    THEN MetricList(<< [Name |-> "episode_reward_mean",
                        Regex |-> "episode_reward_mean: ([-+]?[0-9]*[.]?[0-9]+([eE][-+]?[0-9]+)?)"],
                       [Name |-> "episode_reward_max",
                        Regex |-> "episode_reward_max: ([-+]?[0-9]*[.]?[0-9]+([eE][-+]?[0-9]+)?)"] >>)
    ELSE NoMetrics

(***************************************************************************)
(* Objects are functions from the attributes that have been set to their   *)
(* values; reading an attribute outside the domain is an AttributeError.   *)
(***************************************************************************)
NoObject == [a \in {} |-> PyNone]

\* sagemaker.estimator.Framework.__init__: stores the training configuration
Framework__init__(self, entry_point, source_dir, hyperparameters, image_name, metric_definitions, kwargs) ==
       ("entry_point" :> entry_point)
    @@ ("train_instance_type" :> kwargs.train_instance_type)
    @@ ("output_path" :> kwargs.output_path)
    @@ ("source_dir" :> source_dir)
    @@ ("_hyperparameters" :> hyperparameters)
    @@ ("image_name" :> image_name)
    @@ ("metric_definitions" :> metric_definitions)
    @@ ("role" :> "SageMakerRole")
    @@ ("dependencies" :> <<>>)
    @@ ("_current_job_name" :> PyNone)
    @@ self

\* TOOLKIT_FRAMEWORK_VERSION_MAP[toolkit][toolkit_version][framework] is a
\* KeyError unless all three keys are there
HasTableValue(toolkit, toolkit_version, framework) ==
    /\ toolkit \in DOMAIN TOOLKIT_FRAMEWORK_VERSION_MAP
    /\ toolkit_version \in DOMAIN TOOLKIT_FRAMEWORK_VERSION_MAP[toolkit]
    /\ framework \in DOMAIN TOOLKIT_FRAMEWORK_VERSION_MAP[toolkit][toolkit_version]

\* RLEstimator.__init__; trace lists the support-table lookups and the
\* base-class constructor call in the order they happen
RLEstimator__init__(entry_point, toolkit, toolkit_version, framework, source_dir, hyperparameters, image_name, metric_definitions, kwargs) ==
    LET checked == _validate_images_args(toolkit, toolkit_version, framework, image_name)
    IN  IF Raised(checked.err)
        THEN [err |-> checked.err, self |-> NoObject, warnings |-> checked.warnings,
              trace |-> <<>>]
        ELSE IF ~HasImage(image_name)
        THEN LET support == _validate_toolkit_support(PyStr(toolkit.v), toolkit_version,
                                                      PyStr(framework.v))
             IN  IF Raised(support)
                 THEN [err |-> support, self |-> NoObject, warnings |-> checked.warnings,
                       trace |-> <<"TOOLKIT_FRAMEWORK_VERSION_MAP">>]
                 ELSE IF ~HasTableValue(toolkit.v, toolkit_version.v, framework.v)
                 THEN [err |-> Raise("KeyError", "{}", <<>>), self |-> NoObject,
                       warnings |-> checked.warnings,
                       trace |-> <<"TOOLKIT_FRAMEWORK_VERSION_MAP",
                                   "TOOLKIT_FRAMEWORK_VERSION_MAP">>]
                 ELSE LET self1 ==
                                 ("toolkit" :> PyStr(toolkit.v))
                              @@ ("toolkit_version" :> toolkit_version)
                              @@ ("framework" :> PyStr(framework.v))
                              @@ ("framework_version" :>
                                     PyStr(TOOLKIT_FRAMEWORK_VERSION_MAP[toolkit.v][toolkit_version.v][framework.v]))
                          metrics == IF ~HasMetrics(metric_definitions)
                                     THEN default_metric_definitions(toolkit)
                                     ELSE metric_definitions
                      IN  [err |-> NoErr,
                           self |-> Framework__init__(self1, entry_point, source_dir,
                                                      hyperparameters, image_name, metrics,
                                                      kwargs),
                           warnings |-> checked.warnings,
                           trace |-> <<"TOOLKIT_FRAMEWORK_VERSION_MAP",
                                       "TOOLKIT_FRAMEWORK_VERSION_MAP",
                                       "Framework.__init__">>]
        ELSE [err |-> NoErr,
              self |-> Framework__init__(NoObject, entry_point, source_dir,
                                         hyperparameters, image_name, metric_definitions,
                                         kwargs),
              warnings |-> checked.warnings,
              trace |-> <<"Framework.__init__">>]

(***************************************************************************)
(* Character classes and string helpers                                    *)
(***************************************************************************)
UpperCase == {"A", "B", "C", "D", "E", "F", "G", "H", "I", "J", "K", "L", "M",
              "N", "O", "P", "Q", "R", "S", "T", "U", "V", "W", "X", "Y", "Z"}
LowerCase == {"a", "b", "c", "d", "e", "f", "g", "h", "i", "j", "k", "l", "m",
              "n", "o", "p", "q", "r", "s", "t", "u", "v", "w", "x", "y", "z"}
Digit == {"0", "1", "2", "3", "4", "5", "6", "7", "8", "9"}

StartsWith(s, prefix) ==
    Len(s) >= Len(prefix) /\ SubSeq(s, 1, Len(prefix)) = prefix
EndsWith(s, suffix) ==
    Len(s) >= Len(suffix) /\ SubSeq(s, Len(s) - Len(suffix) + 1, Len(s)) = suffix
DropPrefix(s, n) == SubSeq(s, n + 1, Len(s))

\* length of the longest prefix of s made of characters of class
RECURSIVE PrefixLen(_, _)
PrefixLen(s, class) ==
    IF Len(s) > 0 /\ Head(s) \in class THEN 1 + PrefixLen(Tail(s), class) ELSE 0

\* the numbers n, n-1, ..., 0: the lengths a greedy star gives back in turn
RECURSIVE Countdown(_)
Countdown(n) == IF n = 0 THEN <<0>> ELSE <<n>> \o Countdown(n - 1)

\* the four endings: dash, cpu or gpu, dash, py2 or py3
DeviceSuffixes ==
    { <<"-">> \o d \o <<"-">> \o p : d \in {s_cpu, s_gpu}, p \in {s_py2, s_py3} }

(***************************************************************************)
(* RLEstimator._toolkit_and_version_from_tag.  The pattern is, anchored at *)
(* both ends: group 1, a run of upper-case letters or else a run of        *)
(* lower-case letters (either may be empty); group 2, a digit followed by  *)
(* any characters; a dash; cpu or gpu; a dash; py2 or py3.                 *)
(***************************************************************************)
\* what follows group 1: a digit, then anything, then one of the four endings
\* at the very end of the tag
RestMatches(rest) ==
    /\ Len(rest) >= 1
    /\ rest[1] \in Digit
    /\ \E suffix \in DeviceSuffixes :
          EndsWith(rest, suffix) /\ Len(rest) - Len(suffix) >= 1

RestVersion(rest) ==
    LET suffix == CHOOSE x \in DeviceSuffixes : EndsWith(rest, x)
    IN  SubSeq(rest, 1, Len(rest) - Len(suffix))

\* first length in the backtracking order at which the rest matches, or -1
RECURSIVE FirstSplit(_, _)
FirstSplit(tag, lengths) ==
    IF Len(lengths) = 0 THEN -1
    ELSE IF RestMatches(DropPrefix(tag, Head(lengths))) THEN Head(lengths)
    ELSE FirstSplit(tag, Tail(lengths))

\* the same with group 2 running to the end of the tag
_toolkit_and_version_from_tag_to_the_end(image_tag) ==
    LET tries == Countdown(PrefixLen(image_tag, UpperCase))
                 \o Countdown(PrefixLen(image_tag, LowerCase))
        k == FirstSplit(image_tag, tries)
    IN  IF k >= 0
        THEN <<PyStr(SubSeq(image_tag, 1, k)), PyStr(DropPrefix(image_tag, k))>>
        ELSE <<PyNone, PyNone>>

_toolkit_and_version_from_tag(image_tag) ==
    LET tries == Countdown(PrefixLen(image_tag, UpperCase))
                 \o Countdown(PrefixLen(image_tag, LowerCase))
        k == FirstSplit(image_tag, tries)
    IN  IF k >= 0
        THEN <<PyStr(SubSeq(image_tag, 1, k)), PyStr(RestVersion(DropPrefix(image_tag, k)))>>
        ELSE <<PyNone, PyNone>>

\* the same with a dash between the toolkit and its version
_image_version_dashed(self) == self["toolkit"].v \o <<"-">> \o self["toolkit_version"].v

_image_version(self) == self["toolkit"].v \o self["toolkit_version"].v
\* the framework name without the rl- prefix
_image_framework_bare(self) == self["framework"].v

_image_framework(self) == s_rl_ \o self["framework"].v

(***************************************************************************)
(* sagemaker.fw_utils: image URIs of the platform's managed images         *)
(***************************************************************************)
EcrRegistry(region) == IF region = "us-west-2" THEN "520713654638.dkr.ecr.us-west-2.amazonaws.com"
                       ELSE "520713654638.dkr.ecr.us-east-1.amazonaws.com"
ManagedRegistries == {EcrRegistry("us-west-2"), EcrRegistry("us-east-1")}
ManagedFrameworks == {s_tensorflow, s_mxnet, s_chainer, s_pytorch}
LegacyFrameworks == {s_tensorflow, s_mxnet}

\* cpu or gpu, from the family of the instance type
DeviceOf(instance_type) ==
    IF instance_type \in {"ml.p2.xlarge", "ml.p3.2xlarge", "local_gpu"} THEN s_gpu ELSE s_cpu

create_image_uri(region, framework, instance_type, framework_version, py_version) ==
    Image(EcrRegistry(region),
          s_sagemaker_ \o framework,
          framework_version \o <<"-">> \o DeviceOf(instance_type) \o <<"-">> \o py_version)

\* a tag of the current scheme: version, dash, device, dash, py2 or py3
IsCurrentTag(tag) ==
    /\ EndsWith(tag, <<"-">> \o s_py2) \/ EndsWith(tag, <<"-">> \o s_py3)
    /\ \E i \in 1..(Len(tag) - 4) : tag[i] = "-"

\* repositories of the scheme before it: sagemaker-<framework>-<py>-<device>
LegacyRepos ==
    { [repo |-> s_sagemaker_ \o f \o <<"-">> \o p \o <<"-">> \o d, framework |-> f, py |-> p] :
        f \in LegacyFrameworks, p \in {s_py2, s_py3}, d \in {s_cpu, s_gpu} }

Unrecognized == [framework |-> PyNone, py_version |-> PyNone, tag |-> PyNone]

\* (framework, py_version, tag) of a managed image, all None for any other image
framework_name_from_image(image_name) ==
    IF image_name.registry \notin ManagedRegistries \/ ~StartsWith(image_name.repo, s_sagemaker_)
    THEN Unrecognized
    ELSE LET name == DropPrefix(image_name.repo, Len(s_sagemaker_))
             fw == IF StartsWith(name, s_rl_) THEN DropPrefix(name, Len(s_rl_)) ELSE name
         IN  IF fw \in ManagedFrameworks /\ IsCurrentTag(image_name.tag)
             THEN [framework |-> PyStr(fw),
                   py_version |-> PyStr(SubSeq(image_name.tag, Len(image_name.tag) - 2,
                                               Len(image_name.tag))),
                   tag |-> PyStr(image_name.tag)]
             ELSE IF \E l \in LegacyRepos : l.repo = image_name.repo
             THEN LET l == CHOOSE x \in LegacyRepos : x.repo = image_name.repo
                  IN  [framework |-> PyStr(l.framework), py_version |-> PyStr(l.py),
                       tag |-> PyStr(image_name.tag)]
             ELSE Unrecognized

\* the version part of a tag <version>-<cpu|gpu>-<py2|py3>, None for any other tag
framework_version_from_tag(image_tag) ==
    IF \E suffix \in DeviceSuffixes : EndsWith(image_tag, suffix)
    THEN LET suffix == CHOOSE x \in DeviceSuffixes : EndsWith(image_tag, x)
         IN  PyStr(SubSeq(image_tag, 1, Len(image_tag) - Len(suffix)))
    ELSE PyNone

(***************************************************************************)
(* RLEstimator.train_image                                                 *)
(***************************************************************************)
train_image(self, region) ==
    IF HasImage(self["image_name"])
    THEN [err |-> NoErr, image |-> self["image_name"]]
    ELSE IF {"toolkit", "toolkit_version", "framework"} \subseteq DOMAIN self
    THEN [err |-> NoErr,
          image |-> create_image_uri(region, _image_framework(self),
                                     self["train_instance_type"], _image_version(self),
                                     PYTHON_VERSION)]
    ELSE [err |-> Raise("AttributeError", "'RLEstimator' object has no attribute", <<>>),
          image |-> NoImage]

(***************************************************************************)
(* RLEstimator.hyperparameters                                             *)
(***************************************************************************)
\* json.dumps of a value: the value inside its JSON text
JsonDumps(value) == [json |-> value]

\* sagemaker.estimator.Framework.hyperparameters: the stored ones, JSON-encoded
Framework_hyperparameters(self) ==
    [k \in DOMAIN self["_hyperparameters"] |-> JsonDumps(self["_hyperparameters"][k])]

RLEstimator_hyperparameters(self) ==
       (SAGEMAKER_OUTPUT_LOCATION :> JsonDumps(self["output_path"]))
    @@ (SAGEMAKER_ESTIMATOR :> JsonDumps(SAGEMAKER_ESTIMATOR_VALUE))
    @@ Framework_hyperparameters(self)

(***************************************************************************)
(* RLEstimator.create_model                                                *)
(*                                                                         *)
(* Paths and role names are labels; the empty label and the empty list     *)
(* stand for None, which `or` and `not` treat alike.  A model is its class *)
(* with the keyword arguments of its constructor.                          *)
(***************************************************************************)
\* sagemaker.estimator.EstimatorBase.model_data: the artifact under output_path
Estimator_model_data(self) == <<self["output_path"], "output", "model.tar.gz">>

\* sagemaker.estimator.Framework._model_source_dir
_model_source_dir(self) == self["source_dir"]

NoModel == [class |-> "NoneType", args |-> <<>>]
NewModel(class, args) == [class |-> class, args |-> args]
UnsetAttribute == Raise("AttributeError", "'RLEstimator' object has no attribute", <<>>)

\* create_model looking at image_name before anything else
create_model_image_first(self, role, entry_point, source_dir, dependencies) ==
    LET base_args == [model_data |-> Estimator_model_data(self),
                      role |-> IF role # "" THEN role ELSE self["role"],
                      image |-> self["image_name"],
                      name |-> self["_current_job_name"]]
        extended_args ==
            [entry_point |-> IF entry_point # "" THEN entry_point ELSE self["entry_point"],
             source_dir |-> IF source_dir # "" THEN source_dir ELSE _model_source_dir(self),
             dependencies |-> IF dependencies # <<>> THEN dependencies
                              ELSE self["dependencies"]] @@ base_args
    IN  IF HasImage(self["image_name"])
        THEN [err |-> NoErr, model |-> NewModel("FrameworkModel", extended_args)]
        ELSE IF entry_point = "" /\ (source_dir # "" \/ dependencies # <<>>)
        THEN [err |-> Raise("AttributeError", "Please provide an entry_point.", <<>>),
              model |-> NoModel]
        ELSE IF "toolkit" \notin DOMAIN self
        THEN [err |-> UnsetAttribute, model |-> NoModel]
        ELSE IF self["toolkit"] = PyStr(RAY.v)
        THEN [err |-> Raise("NotImplementedError",
                            "Automatic deployment of Ray models is not currently available.",
                            <<>>),
              model |-> NoModel]
        ELSE IF {"framework", "framework_version"} \ DOMAIN self # {}
        THEN [err |-> UnsetAttribute, model |-> NoModel]
        ELSE IF self["framework"] = PyStr(TENSORFLOW.v)
        THEN [err |-> NoErr,
              model |-> NewModel("tensorflow.serving.Model",
                                 [framework_version |-> self["framework_version"]] @@ base_args)]
        ELSE IF self["framework"] = PyStr(MXNET.v)
        THEN [err |-> NoErr,
              model |-> NewModel("MXNetModel",
                                 [framework_version |-> self["framework_version"],
                                  py_version |-> PYTHON_VERSION] @@ extended_args)]
        ELSE [err |-> NoErr, model |-> NoModel]

\* RLEstimator.create_model
create_model(self, role, entry_point, source_dir, dependencies) ==
    LET base_args == [model_data |-> Estimator_model_data(self),
                      role |-> IF role # "" THEN role ELSE self["role"],
                      image |-> self["image_name"],
                      name |-> self["_current_job_name"]]
    IN  IF entry_point = "" /\ (source_dir # "" \/ dependencies # <<>>)
        THEN [err |-> Raise("AttributeError", "Please provide an entry_point.", <<>>),
              model |-> NoModel]
        ELSE LET extended_args ==
                     [entry_point |-> IF entry_point # "" THEN entry_point
                                      ELSE self["entry_point"],
                      source_dir |-> IF source_dir # "" THEN source_dir
                                     ELSE _model_source_dir(self),
                      dependencies |-> IF dependencies # <<>> THEN dependencies
                                       ELSE self["dependencies"]] @@ base_args
             IN  IF HasImage(self["image_name"])
                 THEN [err |-> NoErr, model |-> NewModel("FrameworkModel", extended_args)]
                 ELSE IF "toolkit" \notin DOMAIN self
                 THEN [err |-> UnsetAttribute, model |-> NoModel]
                 ELSE IF self["toolkit"] = PyStr(RAY.v)
                 THEN [err |-> Raise("NotImplementedError",
                                     "Automatic deployment of Ray models is not currently available.",
                                     <<>>),
                       model |-> NoModel]
                 ELSE IF {"framework", "framework_version"} \ DOMAIN self # {}
                 THEN [err |-> UnsetAttribute, model |-> NoModel]
                 ELSE IF self["framework"] = PyStr(TENSORFLOW.v)
                 THEN [err |-> NoErr,
                       model |-> NewModel("tensorflow.serving.Model",
                                          [framework_version |-> self["framework_version"]]
                                          @@ base_args)]
                 ELSE IF self["framework"] = PyStr(MXNET.v)
                 THEN [err |-> NoErr,
                       model |-> NewModel("MXNetModel",
                                          [framework_version |-> self["framework_version"],
                                           py_version |-> PYTHON_VERSION] @@ extended_args)]
                 ELSE [err |-> NoErr, model |-> NoModel]

(***************************************************************************)
(* Reverse mapping: job description -> constructor arguments               *)
(***************************************************************************)
\* sagemaker.estimator.Framework._prepare_init_params_from_job_description
Framework_prepare_init_params_from_job_description(job_details) ==
       ("image" :> job_details.TrainingImage)
    @@ ("base_job_name" :> job_details.TrainingJobName)
    @@ ("role" :> job_details.RoleArn)

\* dict.get(key) in its place: the key stays
Pop_keeping_key(d, key) == d

\* dict.pop(key): the dict without the key
Pop(d, key) == [k \in DOMAIN d \ {key} |-> d[k]]

\* Enum(value): the member with that value; a ValueError when there is none
IsEnumValue(members, value) == \E m \in members : m.v = value.v /\ value.t = "str"
EnumByValue(members, value) == CHOOSE m \in members : m.v = value.v
NotAMember(value, enum) == Raise("ValueError", "{} is not a valid {}", <<value.v, enum>>)

NotRequestedFramework(init_params) ==
    Raise("ValueError", "Training job: {} didn't use image for requested framework",
          <<init_params["base_job_name"]>>)

RLEstimator_prepare_init_params_from_job_description(job_details) ==
    LET init_params0 == Framework_prepare_init_params_from_job_description(job_details)
        image_name == init_params0["image"]
        init_params == Pop(init_params0, "image")
        parsed == framework_name_from_image(image_name)
        framework == parsed.framework
    IN  IF ~Truthy(framework)
        THEN [err |-> NoErr, init_params |-> ("image_name" :> image_name) @@ init_params,
              toolkit_and_version |-> <<PyNone, PyNone>>, trace |-> <<>>]
        ELSE LET tv == _toolkit_and_version_from_tag(parsed.tag.v)
                 toolkit == tv[1]
                 toolkit_version == tv[2]
                 failed(e) == [err |-> e, init_params |-> NoObject,
                               toolkit_and_version |-> tv,
                               trace |-> <<"TOOLKIT_FRAMEWORK_VERSION_MAP">>]
             IN  IF ~_is_combination_supported(toolkit, toolkit_version, framework)
                 THEN failed(NotRequestedFramework(init_params))
                 ELSE IF ~IsEnumValue(RLToolkit, toolkit)
                 THEN failed(NotAMember(toolkit, "RLToolkit"))
                 ELSE IF ~IsEnumValue(RLFramework, framework)
                 THEN failed(NotAMember(framework, "RLFramework"))
                 ELSE [err |-> NoErr,
                       init_params |->    ("toolkit" :> EnumByValue(RLToolkit, toolkit))
                                       @@ ("toolkit_version" :> toolkit_version)
                                       @@ ("framework" :> EnumByValue(RLFramework, framework))
                                       @@ init_params,
                       toolkit_and_version |-> tv,
                       trace |-> <<"TOOLKIT_FRAMEWORK_VERSION_MAP">>]

\* the class taking itself for the PyTorch one
MXNet__framework_name___of_pytorch == s_pytorch

MXNet__framework_name__ == s_mxnet

\* the same, taking the version of the historical tag literally
MXNet_prepare_init_params_from_job_description_literal_tag(job_details) ==
    LET init_params0 == Framework_prepare_init_params_from_job_description(job_details)
        image_name == init_params0["image"]
        init_params == Pop(init_params0, "image")
        parsed == framework_name_from_image(image_name)
        framework == parsed.framework
    IN  IF ~Truthy(framework)
        THEN [err |-> NoErr, init_params |-> ("image_name" :> image_name) @@ init_params,
              toolkit_and_version |-> <<PyNone, PyNone>>, trace |-> <<>>]
        ELSE LET init_params1 ==
                        ("py_version" :> parsed.py_version)
                     @@ ("framework_version" :>
                            IF parsed.tag.v = s_v1_0 THEN PyStr(s_v1_0)
                            ELSE framework_version_from_tag(parsed.tag.v))
                     @@ init_params
             IN  IF framework.v # MXNet__framework_name__
                 THEN [err |-> NotRequestedFramework(init_params1), init_params |-> NoObject,
                       toolkit_and_version |-> <<PyNone, PyNone>>, trace |-> <<>>]
                 ELSE [err |-> NoErr, init_params |-> init_params1,
                       toolkit_and_version |-> <<PyNone, PyNone>>, trace |-> <<>>]

\* the same, fetching the job description through the session once more before
\* the framework is compared
MXNet_prepare_init_params_from_job_description_fetching(job_details) ==
    LET init_params0 == Framework_prepare_init_params_from_job_description(job_details)
        image_name == init_params0["image"]
        init_params == Pop(init_params0, "image")
        parsed == framework_name_from_image(image_name)
        framework == parsed.framework
    IN  IF ~Truthy(framework)
        THEN [err |-> NoErr, init_params |-> ("image_name" :> image_name) @@ init_params,
              toolkit_and_version |-> <<PyNone, PyNone>>, trace |-> <<>>]
        ELSE LET init_params1 ==
                        ("py_version" :> parsed.py_version)
                     @@ ("framework_version" :>
                            IF parsed.tag.v = s_v1_0 THEN PyStr(s_v0_12)
                            ELSE framework_version_from_tag(parsed.tag.v))
                     @@ init_params
             IN  IF framework.v # MXNet__framework_name__
                 THEN [err |-> NotRequestedFramework(init_params1), init_params |-> NoObject,
                       toolkit_and_version |-> <<PyNone, PyNone>>,
                       trace |-> <<"describe_training_job">>]
                 ELSE [err |-> NoErr, init_params |-> init_params1,
                       toolkit_and_version |-> <<PyNone, PyNone>>,
                       trace |-> <<"describe_training_job">>]

MXNet_prepare_init_params_from_job_description(job_details) ==
    LET init_params0 == Framework_prepare_init_params_from_job_description(job_details)
        image_name == init_params0["image"]
        init_params == Pop(init_params0, "image")
        parsed == framework_name_from_image(image_name)
        framework == parsed.framework
    IN  IF ~Truthy(framework)
        THEN [err |-> NoErr, init_params |-> ("image_name" :> image_name) @@ init_params,
              toolkit_and_version |-> <<PyNone, PyNone>>, trace |-> <<>>]
        ELSE LET init_params1 ==
                        ("py_version" :> parsed.py_version)
                     @@ ("framework_version" :>
                            IF parsed.tag.v = s_v1_0 THEN PyStr(s_v0_12)
                            ELSE framework_version_from_tag(parsed.tag.v))
                     @@ init_params
             IN  IF framework.v # MXNet__framework_name__
                 THEN [err |-> NotRequestedFramework(init_params1), init_params |-> NoObject,
                       toolkit_and_version |-> <<PyNone, PyNone>>, trace |-> <<>>]
                 ELSE [err |-> NoErr, init_params |-> init_params1,
                       toolkit_and_version |-> <<PyNone, PyNone>>, trace |-> <<>>]

(***************************************************************************)
(* sagemaker/mxnet/estimator.py: MXNet.__init__ and _configure_distribution *)
(***************************************************************************)
MXNET_VERSION == s_v1_2_1
LATEST_VERSION == s_v1_4
_LOWEST_SCRIPT_MODE_VERSION == << <<"1">>, <<"3">> >>
LAUNCH_PS_ENV_NAME == "sagemaker_parameter_server_enabled"

\* the characters of the model in increasing code-point order
CodeOrder == <<"-", ".", "0", "1", "2", "3", "4", "5", "6", "7", "8", "9",
               "A", "B", "C", "D", "E", "F", "G", "H", "I", "J", "K", "L", "M",
               "N", "O", "P", "Q", "R", "S", "T", "U", "V", "W", "X", "Y", "Z",
               "a", "b", "c", "d", "e", "f", "g", "h", "i", "j", "k", "l", "m",
               "n", "o", "p", "q", "r", "s", "t", "u", "v", "w", "x", "y", "z">>
Ord(c) == CHOOSE i \in 1..Len(CodeOrder) : CodeOrder[i] = c

\* Python's < on str: lexicographic by code point, a proper prefix is smaller
RECURSIVE StrLess(_, _)
StrLess(a, b) ==
    IF Len(b) = 0 THEN FALSE
    ELSE IF Len(a) = 0 THEN TRUE
    ELSE IF Head(a) # Head(b) THEN Ord(Head(a)) < Ord(Head(b))
    ELSE StrLess(Tail(a), Tail(b))

\* Python's < on list of str: lexicographic, elements compared with str <
RECURSIVE ListLess(_, _)
ListLess(x, y) ==
    IF Len(y) = 0 THEN FALSE
    ELSE IF Len(x) = 0 THEN TRUE
    ELSE IF Head(x) # Head(y) THEN StrLess(Head(x), Head(y))
    ELSE ListLess(Tail(x), Tail(y))

\* str.split(sep) for a one-character separator
RECURSIVE Split(_, _)
Split(s, sep) ==
    IF \A i \in 1..Len(s) : s[i] # sep THEN <<s>>
    ELSE LET i == CHOOSE j \in 1..Len(s) : s[j] = sep /\ \A k \in 1..(j - 1) : s[k] # sep
         IN  <<SubSeq(s, 1, i - 1)>> \o Split(SubSeq(s, i + 1, Len(s)), sep)

\* the concatenation of a list of strings
RECURSIVE Concat(_)
Concat(pieces) == IF Len(pieces) = 0 THEN <<>> ELSE Head(pieces) \o Concat(Tail(pieces))

\* distributions: None or a dict of dicts
NoDistributions == [t |-> "NoneType", v |-> [k \in {} |-> [j \in {} |-> FALSE]]]
Distributions(d) == [t |-> "dict", v |-> d]

_configure_distribution(self, distributions) ==
    IF distributions.t = "NoneType"
    THEN [err |-> NoErr, self |-> self]
    ELSE IF ListLess(Split(self["framework_version"].v, "."), _LOWEST_SCRIPT_MODE_VERSION)
    THEN [err |-> Raise("ValueError",
                        "The distributions option is valid for only versions {} and higher",
                        <<Concat(Join(<<".">>, _LOWEST_SCRIPT_MODE_VERSION))>>),
          self |-> self]
    ELSE IF "parameter_server" \in DOMAIN distributions.v
    THEN LET ps == distributions.v["parameter_server"]
             enabled == IF "enabled" \in DOMAIN ps THEN ps["enabled"] ELSE FALSE
         IN  [err |-> NoErr,
              self |-> [self EXCEPT !["_hyperparameters"] =
                           (LAUNCH_PS_ENV_NAME :> enabled) @@ self["_hyperparameters"]]]
    ELSE [err |-> NoErr, self |-> self]

MXNet__init__(entry_point, source_dir, hyperparameters, py_version, framework_version, image_name, distributions, kwargs) ==
    LET warn1 == IF framework_version.t = "NoneType"
                 THEN << [template |-> "empty_framework_version_warning",
                          args |-> <<MXNET_VERSION, LATEST_VERSION>>] >>
                 ELSE <<>>
        self1 == "framework_version" :>
                     (IF Truthy(framework_version) THEN framework_version
                      ELSE PyStr(MXNET_VERSION))
        self2 == Framework__init__(self1, entry_point, source_dir, hyperparameters,
                                   image_name, NoMetrics, kwargs)
        warn2 == IF py_version = PyStr(s_py2)
                 THEN << [template |-> "python_deprecation_warning",
                          args |-> <<MXNet__framework_name__>>] >>
                 ELSE <<>>
        self3 == ("py_version" :> py_version) @@ self2
        configured == _configure_distribution(self3, distributions)
    IN  [err |-> configured.err,
         self |-> IF Raised(configured.err) THEN NoObject ELSE configured.self,
         warnings |-> warn1 \o warn2,
         trace |-> <<"Framework.__init__">>]

(***************************************************************************)
(* sagemaker/parameter.py: hyperparameter ranges                           *)
(*                                                                         *)
(* Numbers carry their Python type.  A float is kept as its number of      *)
(* halves (0.5 is 1, 1.0 is 2, -1.5 is -3), so that int, bool and float    *)
(* compare by value as they do in Python.  Each type keeps its content in  *)
(* a field of its own.                                                     *)
(***************************************************************************)
PyInt(n) == [t |-> "int", n |-> n]
PyBool(b) == [t |-> "bool", b |-> b]
PyFloat(halves) == [t |-> "float", halves |-> halves]
PyList(l) == [t |-> "list", items |-> l]
PyTuple(l) == [t |-> "tuple", items |-> l]
PyDict(d) == [t |-> "dict", entries |-> d]

Halves(x) ==
    IF x.t = "float" THEN x.halves
    ELSE IF x.t = "bool" THEN (IF x.b THEN 2 ELSE 0)
    ELSE 2 * x.n

\* value >= other and value <= other on numbers
PyGe(a, b) == Halves(a) >= Halves(b)
PyLe(a, b) == Halves(a) <= Halves(b)

s_Auto == <<"A", "u", "t", "o">>
s_Linear == <<"L", "i", "n", "e", "a", "r">>
s_True == <<"T", "r", "u", "e">>
s_False == <<"F", "a", "l", "s", "e">>
s_None == <<"N", "o", "n", "e">>

DecimalDigits == <<"0", "1", "2", "3", "4", "5", "6", "7", "8", "9">>

RECURSIVE NatToStr(_)
NatToStr(n) ==
    IF n < 10 THEN <<DecimalDigits[n + 1]>>
    ELSE NatToStr(n \div 10) \o <<DecimalDigits[(n % 10) + 1]>>

IntToStr(n) == IF n < 0 THEN <<"-">> \o NatToStr(0 - n) ELSE NatToStr(n)

FloatToStr(halves) ==
    LET a == IF halves < 0 THEN 0 - halves ELSE halves
    IN  (IF halves < 0 THEN <<"-">> ELSE <<>>)
        \o NatToStr(a \div 2) \o <<".">> \o (IF a % 2 = 1 THEN <<"5">> ELSE <<"0">>)

\* repr of a number, as it appears inside the str of a tuple
NumberRepr(x) ==
    IF x.t = "int" THEN IntToStr(x.n)
    ELSE IF x.t = "float" THEN FloatToStr(x.halves)
    ELSE IF x.b THEN s_True ELSE s_False

\* str of a tuple of numbers: "(1, 2)", and "(1,)" for a single element
TupleToStr(items) ==
    <<"(">>
    \o Concat(Join(<<",", " ">>, [i \in 1..Len(items) |-> NumberRepr(items[i])]))
    \o (IF Len(items) = 1 THEN <<",">> ELSE <<>>)
    \o <<")">>

\* sagemaker.utils.to_str: the string coercion str(value)
to_str(value) ==
    IF value.t = "str" THEN value
    ELSE IF value.t = "NoneType" THEN PyStr(s_None)
    ELSE IF value.t = "tuple" THEN PyStr(TupleToStr(value.items))
    ELSE PyStr(NumberRepr(value))

\* json.dumps of a str: the characters between double quotes, with the double
\* quote and the backslash escaped by a backslash
RECURSIVE JsonEscape(_)
JsonEscape(s) ==
    IF Len(s) = 0 THEN <<>>
    ELSE (IF Head(s) \in {"\"", "\\"} THEN <<"\\", Head(s)>> ELSE <<Head(s)>>)
         \o JsonEscape(Tail(s))

\* json.dumps of a scalar
json_dumps(value) ==
    IF value.t = "str" THEN PyStr(<<"\"">> \o JsonEscape(value.v) \o <<"\"">>)
    ELSE IF value.t = "bool" THEN PyStr(IF value.b THEN <<"t", "r", "u", "e">>
                                         ELSE <<"f", "a", "l", "s", "e">>)
    ELSE IF value.t = "NoneType" THEN PyStr(<<"n", "u", "l", "l">>)
    ELSE PyStr(NumberRepr(value))

\* ParameterRange.__init__
ParameterRange__init__(min_value, max_value, scaling_type) ==
       ("min_value" :> min_value)
    @@ ("max_value" :> max_value)
    @@ ("scaling_type" :> scaling_type)

\* is_valid with the bounds left out of the range
ParameterRange_is_valid_exclusive(self, value) ==
    PyBool(Halves(value) > Halves(self["min_value"]) /\ Halves(value) < Halves(self["max_value"]))

\* ParameterRange.is_valid
ParameterRange_is_valid(self, value) ==
    PyBool(PyGe(value, self["min_value"]) /\ PyLe(value, self["max_value"]))

\* ParameterRange.as_tuning_range
ParameterRange_as_tuning_range(self, name) ==
    PyDict(   ("Name" :> name)
           @@ ("MinValue" :> to_str(self["min_value"]))
           @@ ("MaxValue" :> to_str(self["max_value"]))
           @@ ("ScalingType" :> self["scaling_type"]))

\* the constructor keeping one copy of every distinct string
RECURSIVE Deduplicated(_)
Deduplicated(l) ==
    IF Len(l) = 0 THEN <<>>
    ELSE LET front == Deduplicated(SubSeq(l, 1, Len(l) - 1))
         IN  IF \E i \in 1..Len(front) : front[i] = l[Len(l)] THEN front
             ELSE Append(front, l[Len(l)])

CategoricalParameter__init___deduplicating(values) ==
    IF values.t = "list"
    THEN "values" :> PyList(Deduplicated([i \in 1..Len(values.items) |-> to_str(values.items[i])]))
    ELSE "values" :> PyList(<<to_str(values)>>)

\* CategoricalParameter.__init__
CategoricalParameter__init__(values) ==
    IF values.t = "list"
    THEN "values" :> PyList([i \in 1..Len(values.items) |-> to_str(values.items[i])])
    ELSE "values" :> PyList(<<to_str(values)>>)

\* CategoricalParameter.as_tuning_range
CategoricalParameter_as_tuning_range(self, name) ==
    PyDict(("Name" :> name) @@ ("Values" :> self["values"]))

\* CategoricalParameter.as_json_range
CategoricalParameter_as_json_range(self, name) ==
    PyDict(   ("Name" :> name)
           @@ ("Values" :> PyList([i \in 1..Len(self["values"].items) |->
                                      json_dumps(self["values"].items[i])])))

\* is_valid coercing the value before the membership test
CategoricalParameter_is_valid_coercing(self, value) ==
    PyBool(\E i \in 1..Len(self["values"].items) : self["values"].items[i] = to_str(value))

\* CategoricalParameter.is_valid
CategoricalParameter_is_valid(self, value) ==
    PyBool(\E i \in 1..Len(self["values"].items) :
               value.t = "str" /\ self["values"].items[i] = value)

\* decimal value of a string of digits
RECURSIVE ParseInt(_)
ParseInt(digits) ==
    IF Len(digits) = 0 THEN 0
    ELSE 10 * ParseInt(SubSeq(digits, 1, Len(digits) - 1))
         + (CHOOSE n \in 0..9 : <<"0", "1", "2", "3", "4", "5", "6", "7", "8", "9">>[n + 1]
                                  = digits[Len(digits)])

\* text.strip() for blanks
RECURSIVE Strip(_)
Strip(text) ==
    IF Len(text) = 0 THEN text
    ELSE IF Head(text) = " " THEN Strip(Tail(text))
    ELSE IF text[Len(text)] = " " THEN Strip(SubSeq(text, 1, Len(text) - 1))
    ELSE text

HasSign(text) == Len(text) > 0 /\ Head(text) \in {"-", "+"}
Unsigned(text) == IF HasSign(text) THEN Tail(text) ELSE text
IsDigits(text) == Len(text) > 0 /\ \A i \in 1..Len(text) : text[i] \in Digit

\* the decimal literals int() reads: blanks, a sign, digits
IsIntLiteral(text) == IsDigits(Unsigned(Strip(text)))

\* the decimal literals float() reads: blanks, a sign, digits with at most
\* one point, a digit on at least one side of it
IsFloatLiteral(text) ==
    LET parts == Split(Unsigned(Strip(text)), ".")
    IN  \/ Len(parts) = 1 /\ IsDigits(parts[1])
        \/ /\ Len(parts) = 2
           /\ parts[1] # <<>> \/ parts[2] # <<>>
           /\ \A i \in 1..2 : parts[i] = <<>> \/ IsDigits(parts[i])

Signed(text, n) == IF HasSign(Strip(text)) /\ Head(Strip(text)) = "-" THEN 0 - n ELSE n

\* the fraction digits of a literal in halves; the fractions that occur are
\* whole halves (.0 and .5)
FractionHalves(frac) == IF Len(frac) > 0 /\ Head(frac) = "5" THEN 1 ELSE 0

ParseFloat(text) ==
    LET parts == Split(Unsigned(Strip(text)), ".")
        whole == ParseInt(parts[1])
        frac == IF Len(parts) = 2 THEN parts[2] ELSE <<>>
    IN  Signed(text, 2 * whole + FractionHalves(frac))

\* the builtin float(value)
float(value) ==
    IF value.t \in {"int", "bool", "float"}
    THEN [err |-> NoErr, value |-> PyFloat(Halves(value))]
    ELSE IF value.t = "str"
    THEN IF IsFloatLiteral(value.v)
         THEN [err |-> NoErr, value |-> PyFloat(ParseFloat(value.v))]
         ELSE [err |-> Raise("ValueError", "could not convert string to float: {}", <<value.v>>),
               value |-> PyNone]
    ELSE [err |-> Raise("TypeError", "float() argument must be a string or a number", <<>>),
          value |-> PyNone]

\* a float cut off towards zero
Truncated(halves) == IF halves < 0 THEN 0 - ((0 - halves) \div 2) ELSE halves \div 2

\* the builtin int(value)
int(value) ==
    IF value.t \in {"int", "bool", "float"}
    THEN [err |-> NoErr, value |-> PyInt(Truncated(Halves(value)))]
    ELSE IF value.t = "str"
    THEN IF IsIntLiteral(value.v)
         THEN [err |-> NoErr, value |-> PyInt(Signed(value.v, ParseInt(Unsigned(Strip(value.v)))))]
         ELSE [err |-> Raise("ValueError", "invalid literal for int() with base 10: {}", <<value.v>>),
               value |-> PyNone]
    ELSE [err |-> Raise("TypeError", "int() argument must be a string or a number", <<>>),
          value |-> PyNone]

\* ParameterRange.cast_to_type
ParameterRange_cast_to_type(value) == float(value)

\* ContinuousParameter.cast_to_type
ContinuousParameter_cast_to_type(value) == float(value)

\* the cast of the base class inherited in place of the override
IntegerParameter_cast_to_type_inherited(value) == ParameterRange_cast_to_type(value)

\* IntegerParameter.cast_to_type
IntegerParameter_cast_to_type(value) == int(value)

\* CategoricalParameter.cast_to_type
CategoricalParameter_cast_to_type(value) == [err |-> NoErr, value |-> to_str(value)]

(***************************************************************************)
(* sagemaker/pytorch/model.py: PyTorchModel                                *)
(*                                                                         *)
(* Environment keys and values are strings the code builds (upper-casing,  *)
(* str of the worker count), so they are character sequences.              *)
(***************************************************************************)
s_SAGEMAKER_PROGRAM == <<"S", "A", "G", "E", "M", "A", "K", "E", "R", "_", "P", "R", "O", "G", "R", "A", "M">>
s_SAGEMAKER_SUBMIT_DIRECTORY == <<"S", "A", "G", "E", "M", "A", "K", "E", "R", "_", "S", "U", "B", "M", "I", "T", "_", "D", "I", "R", "E", "C", "T", "O", "R", "Y">>
s_SAGEMAKER_REGION == <<"S", "A", "G", "E", "M", "A", "K", "E", "R", "_", "R", "E", "G", "I", "O", "N">>
s_SAGEMAKER_MODEL_SERVER_WORKERS == <<"S", "A", "G", "E", "M", "A", "K", "E", "R", "_", "M", "O", "D", "E", "L", "_", "S", "E", "R", "V", "E", "R", "_", "W", "O", "R", "K", "E", "R", "S">>
s_inference_py == <<"i", "n", "f", "e", "r", "e", "n", "c", "e", ".", "p", "y">>
s_model_tar == <<"s", "3", ":", "/", "/", "m", "o", "d", "e", "l", "s", "/", "m", "o", "d", "e", "l", ".", "t", "a", "r", ".", "g", "z">>
s_s3_bucket == <<"s", "3", ":", "/", "/", "s", "a", "g", "e", "m", "a", "k", "e", "r", "-", "b", "u", "c", "k", "e", "t", "/">>
s_sourcedir == <<"/", "s", "o", "u", "r", "c", "e", "d", "i", "r", ".", "t", "a", "r", ".", "g", "z">>
s_us_west_2 == <<"u", "s", "-", "w", "e", "s", "t", "-", "2">>
s_us_east_1 == <<"u", "s", "-", "e", "a", "s", "t", "-", "1">>
s_ml_eia1_medium == <<"m", "l", ".", "e", "i", "a", "1", ".", "m", "e", "d", "i", "u", "m">>

PyTorchModel__framework_name__ == s_pytorch
MODEL_SERVER_WORKERS_PARAM_NAME == <<"s", "a", "g", "e", "m", "a", "k", "e", "r", "_", "m", "o", "d", "e", "l", "_", "s", "e", "r", "v", "e", "r", "_", "w", "o", "r", "k", "e", "r", "s">>

\* str.upper(): lower-case letters to upper case, every other character kept
Upper(s) == [i \in 1..Len(s) |-> IF s[i] \in LowerCase THEN CodeOrder[Ord(s[i]) - 26] ELSE s[i]]

\* Python truth of a number, a string or None
PyTruthy(x) ==
    IF x.t = "NoneType" THEN FALSE
    ELSE IF x.t = "int" THEN x.n # 0
    ELSE IF x.t = "bool" THEN x.b
    ELSE IF x.t = "float" THEN x.halves # 0
    ELSE Len(x.v) > 0

RegionName(region) == IF region = "us-west-2" THEN s_us_west_2 ELSE s_us_east_1

\* dict.update and item assignment: the right-hand entries win
DictUpdate(d, e) == e @@ d

EmptyEnv == [k \in {} |-> PyNone]

\* sagemaker.model.FrameworkModel.__init__: stores the deployment configuration;
\* no code has been uploaded yet
FrameworkModel__init__(model_data, image, role, entry_point, kwargs) ==
       ("model_data" :> model_data)
    @@ ("image" :> image)
    @@ ("role" :> role)
    @@ ("entry_point" :> entry_point)
    @@ ("env" :> kwargs.env)
    @@ ("name" :> kwargs.name)
    @@ ("key_prefix" :> kwargs.key_prefix)
    @@ ("region_name" :> kwargs.region_name)
    @@ ("uploaded_code" :> PyNone)

\* the constructor rejecting the deprecated python version
PyTorchModel__init___rejecting_py2(model_data, role, entry_point, image, py_version, framework_version, model_server_workers, kwargs) ==
    LET self1 == FrameworkModel__init__(model_data, image, role, entry_point, kwargs)
    IN  IF py_version = PyStr(s_py2)
        THEN [err |-> Raise("ValueError", "python_deprecation_warning",
                            <<PyTorchModel__framework_name__>>),
              self |-> NoObject,
              warnings |-> <<>>,
              trace |-> <<"FrameworkModel.__init__">>]
        ELSE [err |-> NoErr,
              self |->    ("py_version" :> py_version)
                       @@ ("framework_version" :> framework_version)
                       @@ ("model_server_workers" :> model_server_workers)
                       @@ self1,
              warnings |-> <<>>,
              trace |-> <<"FrameworkModel.__init__">>]

\* PyTorchModel.__init__
PyTorchModel__init__(model_data, role, entry_point, image, py_version, framework_version, model_server_workers, kwargs) ==
    LET self1 == FrameworkModel__init__(model_data, image, role, entry_point, kwargs)
        warn == IF py_version = PyStr(s_py2)
                THEN << [template |-> "python_deprecation_warning",
                         args |-> <<PyTorchModel__framework_name__>>] >>
                ELSE <<>>
    IN  [err |-> NoErr,
         self |->    ("py_version" :> py_version)
                  @@ ("framework_version" :> framework_version)
                  @@ ("model_server_workers" :> model_server_workers)
                  @@ self1,
         warnings |-> warn,
         trace |-> <<"FrameworkModel.__init__">>]

\* fw_utils.create_image_uri with an accelerator type: the repository of the
\* framework's Elastic Inference images
create_image_uri_accelerated(region, framework, instance_type, framework_version, py_version, accelerator_type) ==
    IF accelerator_type.t = "NoneType"
    THEN create_image_uri(region, framework, instance_type, framework_version, py_version)
    ELSE create_image_uri(region, framework \o <<"-", "e", "i", "a">>, instance_type,
                          framework_version, py_version)

\* fw_utils.model_code_key_prefix: the given prefix and the model name, or a
\* name made from the image when the model has none, joined by slashes
model_code_key_prefix(code_location_key_prefix, model_name, image) ==
    LET base == IF PyTruthy(model_name) THEN model_name.v ELSE image.repo
        parts == IF PyTruthy(code_location_key_prefix)
                 THEN <<code_location_key_prefix.v, base>> ELSE <<base>>
    IN  Concat(Join(<<"/">>, parts))

\* sagemaker.model.FrameworkModel._upload_code: session.upload of the entry
\* point under the key prefix; the object remembers where the code went
UploadedCode(self, key_prefix) ==
    [t |-> "UploadedCode",
     code |-> [s3_prefix |-> s_s3_bucket \o key_prefix \o s_sourcedir,
            script_name |-> self["entry_point"].v]]

_upload_code(self, store, key_prefix) ==
    [self |-> [self EXCEPT !["uploaded_code"] = UploadedCode(self, key_prefix)],
     store |-> Append(store, [key_prefix |-> key_prefix, path |-> self["entry_point"].v])]

\* sagemaker.model.FrameworkModel._framework_env_vars
_framework_env_vars(self) ==
       (s_SAGEMAKER_PROGRAM :> PyStr(self["uploaded_code"].code.script_name))
    @@ (s_SAGEMAKER_SUBMIT_DIRECTORY :> PyStr(self["uploaded_code"].code.s3_prefix))
    @@ (s_SAGEMAKER_REGION :> PyStr(RegionName(self["region_name"])))

\* sagemaker.container_def
container_def(image, model_data_url, env) ==
    [Image |-> image, ModelDataUrl |-> model_data_url, Environment |-> env]

\* prepare_container_def building the environment in the model's own env
\* mapping instead of a copy of it
prepare_container_def_in_place(self, store, instance_type, accelerator_type) ==
    LET deploy_image ==
            IF HasImage(self["image"]) THEN self["image"]
            ELSE create_image_uri_accelerated(self["region_name"], PyTorchModel__framework_name__,
                                              instance_type, self["framework_version"].v,
                                              self["py_version"].v, accelerator_type)
        deploy_key_prefix == model_code_key_prefix(self["key_prefix"], self["name"], deploy_image)
        uploaded == _upload_code(self, store, deploy_key_prefix)
        deploy_env1 == DictUpdate(self["env"], _framework_env_vars(uploaded.self))
        deploy_env2 ==
            IF PyTruthy(self["model_server_workers"])
            THEN DictUpdate(deploy_env1,
                            Upper(MODEL_SERVER_WORKERS_PARAM_NAME)
                                :> to_str(self["model_server_workers"]))
            ELSE deploy_env1
    IN  [self |-> [uploaded.self EXCEPT !["env"] = deploy_env2],
         store |-> uploaded.store,
         result |-> container_def(deploy_image, self["model_data"], deploy_env2),
         trace |-> (IF HasImage(self["image"]) THEN <<>> ELSE <<"create_image_uri">>)
                   \o <<"model_code_key_prefix", "upload">>]

\* PyTorchModel.prepare_container_def; trace lists the calls to
\* create_image_uri, model_code_key_prefix and the upload in their order
prepare_container_def(self, store, instance_type, accelerator_type) ==
    LET deploy_image ==
            IF HasImage(self["image"]) THEN self["image"]
            ELSE create_image_uri_accelerated(self["region_name"], PyTorchModel__framework_name__,
                                              instance_type, self["framework_version"].v,
                                              self["py_version"].v, accelerator_type)
        deploy_key_prefix == model_code_key_prefix(self["key_prefix"], self["name"], deploy_image)
        uploaded == _upload_code(self, store, deploy_key_prefix)
        deploy_env1 == DictUpdate(self["env"], _framework_env_vars(uploaded.self))
        deploy_env2 ==
            IF PyTruthy(self["model_server_workers"])
            THEN DictUpdate(deploy_env1,
                            Upper(MODEL_SERVER_WORKERS_PARAM_NAME)
                                :> to_str(self["model_server_workers"]))
            ELSE deploy_env1
    IN  [self |-> uploaded.self,
         store |-> uploaded.store,
         result |-> container_def(deploy_image, self["model_data"], deploy_env2),
         trace |-> (IF HasImage(self["image"]) THEN <<>> ELSE <<"create_image_uri">>)
                   \o <<"model_code_key_prefix", "upload">>]

(***************************************************************************)
(* State: one session.  At most one object is constructed; a training      *)
(* job is described through the session (the only remote call here) and    *)
(* its description is mapped back to constructor arguments.                *)
(***************************************************************************)
VARIABLES
    cls,          \* class of the constructed object, "none" before construction
    est,          \* the object: an estimator, a parameter range or a model
    last,         \* the operation performed last, with its arguments
    err,          \* the exception it raised, NoErr if it returned
    warnings,     \* what it logged through logger.warning
    trace,        \* its support-table lookups, base-class and session calls, in order
    image,        \* the image returned by train_image
    job,          \* the job description returned by describe_training_job
    init_params,  \* the init params returned by the reverse mapping
    tag_parse,    \* what _toolkit_and_version_from_tag returned in the reverse mapping
    remote,       \* number of remote calls issued through the session
    built,        \* the constructor call that made the object, with its arguments
    result,       \* what the last operation on a parameter range or a model returned
    uploads       \* the code uploaded to storage through the session, in order

vars == <<cls, est, last, err, warnings, trace, image, job, init_params, tag_parse, remote,
          built, result, uploads>>

MaxRemoteCalls == 2

\* the calls that go through the session to the remote service
SessionCalls == {"describe_training_job", "upload"}

\* the operations of an estimator that may follow one another in any order
RLEstimatorOps == {"RLEstimator.__init__", "RLEstimator.train_image",
                   "RLEstimator.hyperparameters", "RLEstimator.create_model"}
RemoteCallsIn(calls) == Cardinality({ i \in DOMAIN calls : calls[i] \in SessionCalls })

NoJob == [TrainingJobName |-> "", TrainingImage |-> NoImage, RoleArn |-> ""]

\* ---- inputs ----
CustomImage == Image("123.dkr.ecr.us-west-2.amazonaws.com", <<"m", "y", "-", "i", "m", "g">>, s_v1_0)
DockerHubImage == Image("docker.io", <<"c", "u", "s", "t", "o", "m">>, <<"l", "a", "t", "e", "s", "t">>)

TableVersions == UNION { DOMAIN TOOLKIT_FRAMEWORK_VERSION_MAP[t] : t \in DOMAIN TOOLKIT_FRAMEWORK_VERSION_MAP }

ToolkitArgs == RLToolkit \cup {PyNone, PyStr(s_TF)}
ToolkitVersionArgs == {PyNone, PyStr(<<>>), PyStr(s_v1_0)} \cup { PyStr(v) : v \in TableVersions }
FrameworkArgs == RLFramework \cup {PyNone, PyStr(s_TF)}
ImageArgs == {NoImage, CustomImage}
CustomMetrics == MetricList(<< [Name |-> "loss", Regex |-> "loss=(.*?);"] >>)
MetricArgs == {NoMetrics, MetricList(<<>>), CustomMetrics}
NoHyperparameters == [k \in {} |-> ""]
HyperparameterArgs == {NoHyperparameters, "epochs" :> "5"}
InstanceTypes == {"ml.c4.xlarge", "ml.p2.xlarge"}
Regions == {"us-west-2", "us-east-1"}

MXNetVersionArgs ==
    {PyNone, PyStr(<<>>)} \cup
    { PyStr(v) : v \in {s_v0_12, s_v1_0, s_v1_2_1, s_v1_3, s_v1_3_1, s_v1_4, s_v1_10,
                        s_v2_0, s_v10_0} }
PyVersionArgs == {PyStr(s_py2), PyStr(s_py3)}
DistributionArgs ==
    { NoDistributions,
      Distributions([k \in {} |-> [j \in {} |-> FALSE]]),
      Distributions("parameter_server" :> [j \in {} |-> FALSE]),
      Distributions("parameter_server" :> ("enabled" :> TRUE)),
      Distributions("parameter_server" :> ("enabled" :> FALSE)) }

s_Coach0_11 == <<"C", "o", "a", "c", "h", "0", ".", "1", "1">>
s_COACH0_11 == <<"C", "O", "A", "C", "H", "0", ".", "1", "1">>
s_latest == <<"l", "a", "t", "e", "s", "t">>
Tag(version, device, py) == version \o <<"-">> \o device \o <<"-">> \o py

\* images of jobs that were not started from this session
AttachImages ==
    { Image(EcrRegistry("us-west-2"), s_sagemaker_ \o s_rl_ \o s_mxnet, Tag(s_coach \o s_v0_11, s_gpu, s_py3)),
      Image(EcrRegistry("us-west-2"), s_sagemaker_ \o s_rl_ \o s_tensorflow, Tag(s_coach \o s_v0_11, s_gpu, s_py3)),
      Image(EcrRegistry("us-east-1"), s_sagemaker_ \o s_rl_ \o s_tensorflow, Tag(s_ray \o s_v0_5_3, s_cpu, s_py3)),
      Image(EcrRegistry("us-west-2"), s_sagemaker_ \o s_rl_ \o s_mxnet, Tag(s_ray \o s_v0_5, s_cpu, s_py3)),
      Image(EcrRegistry("us-west-2"), s_sagemaker_ \o s_rl_ \o s_tensorflow, Tag(s_Coach0_11, s_cpu, s_py3)),
      Image(EcrRegistry("us-west-2"), s_sagemaker_ \o s_rl_ \o s_tensorflow, Tag(s_COACH0_11, s_cpu, s_py3)),
      Image(EcrRegistry("us-west-2"), s_sagemaker_ \o s_rl_ \o s_tensorflow, Tag(s_coach \o s_latest, s_cpu, s_py3)),
      Image(EcrRegistry("us-west-2"), s_sagemaker_ \o s_rl_ \o s_mxnet, Tag(s_coach \o s_v0_11, <<"e", "i", "a">>, s_py3)),
      Image(EcrRegistry("us-west-2"), s_sagemaker_ \o s_mxnet, Tag(s_v1_4, s_cpu, s_py3)),
      Image(EcrRegistry("us-west-2"), s_sagemaker_ \o s_mxnet, Tag(s_v1_0, s_gpu, s_py2)),
      Image(EcrRegistry("us-west-2"), s_sagemaker_ \o s_mxnet \o <<"-">> \o s_py2 \o <<"-">> \o s_cpu, s_v1_0),
      Image(EcrRegistry("us-west-2"), s_sagemaker_ \o s_mxnet \o <<"-">> \o s_py3 \o <<"-">> \o s_gpu, s_v1_4),
      Image(EcrRegistry("us-west-2"), s_sagemaker_ \o s_pytorch, Tag(s_v1_0, s_gpu, s_py3)),
      Image(EcrRegistry("us-west-2"), s_sagemaker_ \o s_rl_ \o s_pytorch, Tag(s_coach \o s_v0_11, s_gpu, s_py3)),
      Image(EcrRegistry("us-west-2"), <<"m", "y", "-", "i", "m", "g">>, Tag(s_coach \o s_v0_11, s_gpu, s_py3)),
      CustomImage,
      DockerHubImage }
JobNames == {"neo", "trinity"}
Job(name, img) == [TrainingJobName |-> name, TrainingImage |-> img, RoleArn |-> "SageMakerRole"]

\* ---- inputs of create_model ----
CreateModelArgs ==
    { [role |-> "", entry_point |-> "", source_dir |-> "", dependencies |-> <<>>],
      [role |-> "", entry_point |-> "inference.py", source_dir |-> "", dependencies |-> <<>>],
      [role |-> "", entry_point |-> "", source_dir |-> "src", dependencies |-> <<>>],
      [role |-> "", entry_point |-> "", source_dir |-> "", dependencies |-> <<"lib">>],
      [role |-> "DeployRole", entry_point |-> "inference.py", source_dir |-> "src",
       dependencies |-> <<"lib">>] }

\* ---- inputs of the parameter ranges ----
NumberArgs == {PyInt(0 - 1), PyInt(0), PyInt(1), PyInt(5), PyInt(10),
               PyFloat(1), PyFloat(3), PyFloat(10)}
ScalingTypeArgs == {PyStr(s_Auto), PyStr(s_Linear)}
ParameterNames == {PyStr(<<"l", "r">>)}
CategoricalValues ==
    {PyInt(1), PyInt(10), PyBool(TRUE), PyFloat(1),
     PyStr(<<"a">>), PyStr(<<"1">>), PyStr(<<"a", "\"", "b">>)}
CategoricalArgs ==
    { PyList(<<>>) }
    \cup { PyList(<<a>>) : a \in CategoricalValues }
    \cup { PyList(<<a, b>>) : a \in CategoricalValues, b \in CategoricalValues }
    \cup CategoricalValues
    \cup { PyNone, PyTuple(<<PyInt(1), PyInt(2)>>), PyTuple(<<PyInt(1)>>) }

CastArgs ==
    NumberArgs
    \cup { PyFloat(0 - 3), PyBool(TRUE), PyBool(FALSE), PyNone, PyList(<<PyInt(1)>>),
           PyTuple(<<PyInt(1), PyInt(2)>>),
           PyStr(<<"1">>), PyStr(<<"-", "1", "0">>), PyStr(<<" ", "5", " ">>),
           PyStr(<<"1", ".", "5">>), PyStr(<<"-", "0", ".", "5">>), PyStr(<<"2", ".">>),
           PyStr(<<"a">>), PyStr(<<>>), PyStr(<<"1", ".", "5", ".", "0">>) }
CategoricalCastArgs ==
    CategoricalValues \cup { PyNone, PyInt(0 - 1), PyBool(FALSE), PyFloat(3),
                             PyTuple(<<PyInt(1), PyInt(2)>>) }

\* ---- inputs of the PyTorch model ----
PyTorchVersionArgs == {PyStr(s_v1_0), PyStr(s_v1_4)}
WorkerArgs == {PyNone, PyInt(0), PyInt(1), PyInt(10)}
EnvArgs == { EmptyEnv,
             <<"F", "O", "O">> :> PyStr(<<"b", "a", "r">>),
             s_SAGEMAKER_MODEL_SERVER_WORKERS :> PyStr(<<"9">>) }
ModelNameArgs == {PyNone, PyStr(<<"m", "y", "-", "m", "o", "d", "e", "l">>)}
KeyPrefixArgs == {PyNone, PyStr(<<"c", "o", "d", "e">>)}
AcceleratorArgs == {PyNone, PyStr(s_ml_eia1_medium)}

\* ---- initial state ----
Init ==
    /\ cls = "none"
    /\ est = NoObject
    /\ last = [op |-> "none", args |-> <<>>]
    /\ err = NoErr
    /\ warnings = <<>>
    /\ trace = <<>>
    /\ image = NoImage
    /\ job = NoJob
    /\ init_params = NoObject
    /\ tag_parse = <<PyNone, PyNone>>
    /\ remote = 0
    /\ built = [op |-> "none", args |-> <<>>]
    /\ result = PyNone
    /\ uploads = <<>>

\* ---- RLEstimator(entry_point, toolkit, toolkit_version, framework, ...) ----
RLInit ==
    /\ cls = "none" /\ last.op = "none"
    /\ \E toolkit \in ToolkitArgs, toolkit_version \in ToolkitVersionArgs,
          framework \in FrameworkArgs, image_name \in ImageArgs,
          metric_definitions \in MetricArgs, hyperparameters \in HyperparameterArgs,
          instance_type \in InstanceTypes :
          LET r == RLEstimator__init__("train.py", toolkit, toolkit_version, framework, "",
                                       hyperparameters, image_name, metric_definitions,
                                       [train_instance_type |-> instance_type,
                                        output_path |-> "s3://bucket/output"])
          IN  /\ last' = [op |-> "RLEstimator.__init__",
                          args |-> [toolkit |-> toolkit, toolkit_version |-> toolkit_version,
                                    framework |-> framework, image_name |-> image_name,
                                    metric_definitions |-> metric_definitions,
                                    hyperparameters |-> hyperparameters]]
              /\ err' = r.err
              /\ est' = r.self
              /\ cls' = IF Raised(r.err) THEN "none" ELSE "RLEstimator"
              /\ warnings' = r.warnings
              /\ trace' = r.trace
              /\ remote' = remote + RemoteCallsIn(r.trace)
    /\ built' = last'
    /\ UNCHANGED <<image, job, init_params, tag_parse, result, uploads>>

\* ---- MXNet(entry_point, py_version, framework_version, image_name, distributions) ----
MXNetInit ==
    /\ cls = "none" /\ last.op = "none"
    /\ \E py_version \in PyVersionArgs, framework_version \in MXNetVersionArgs,
          image_name \in ImageArgs, distributions \in DistributionArgs,
          hyperparameters \in HyperparameterArgs :
          LET r == MXNet__init__("train.py", "", hyperparameters, py_version,
                                 framework_version, image_name, distributions,
                                 [train_instance_type |-> "ml.c4.xlarge",
                                  output_path |-> "s3://bucket/output"])
          IN  /\ last' = [op |-> "MXNet.__init__",
                          args |-> [py_version |-> py_version,
                                    framework_version |-> framework_version,
                                    image_name |-> image_name,
                                    distributions |-> distributions,
                                    hyperparameters |-> hyperparameters]]
              /\ err' = r.err
              /\ est' = r.self
              /\ cls' = IF Raised(r.err) THEN "none" ELSE "MXNet"
              /\ warnings' = r.warnings
              /\ trace' = r.trace
              /\ remote' = remote + RemoteCallsIn(r.trace)
    /\ built' = last'
    /\ UNCHANGED <<image, job, init_params, tag_parse, result, uploads>>

\* ---- RLEstimator.train_image() ----
RLTrainImage ==
    /\ cls = "RLEstimator" /\ last.op \in RLEstimatorOps
    /\ \E region \in Regions :
          LET r == train_image(est, region)
          IN  /\ last' = [op |-> "RLEstimator.train_image", args |-> [region |-> region]]
              /\ err' = r.err
              /\ image' = r.image
    /\ warnings' = <<>>
    /\ trace' = <<>>
    /\ result' = PyNone
    /\ UNCHANGED <<cls, est, job, init_params, tag_parse, remote, uploads, built>>

\* ---- RLEstimator.hyperparameters() ----
RLHyperparameters ==
    /\ cls = "RLEstimator" /\ last.op \in RLEstimatorOps
    /\ result' = RLEstimator_hyperparameters(est)
    /\ last' = [op |-> "RLEstimator.hyperparameters", args |-> <<>>]
    /\ err' = NoErr
    /\ warnings' = <<>>
    /\ trace' = <<>>
    /\ UNCHANGED <<cls, est, image, job, init_params, tag_parse, remote, uploads, built>>

\* ---- RLEstimator.create_model(role, entry_point, source_dir, dependencies) ----
RLCreateModel ==
    /\ cls = "RLEstimator" /\ last.op \in RLEstimatorOps
    /\ \E args \in CreateModelArgs :
          LET r == create_model(est, args.role, args.entry_point, args.source_dir,
                                args.dependencies)
          IN  /\ result' = r.model
              /\ err' = r.err
              /\ last' = [op |-> "RLEstimator.create_model", args |-> args]
    /\ warnings' = <<>>
    /\ trace' = <<>>
    /\ UNCHANGED <<cls, est, image, job, init_params, tag_parse, remote, uploads, built>>

\* ---- session.describe_training_job(name): the remote call ----
\* The job is either one started with this estimator's training image or,
\* in a session without an estimator, any job of the account.
DescribeTrainingJob ==
    /\ remote < MaxRemoteCalls
    /\ \/ cls = "none" /\ ~Raised(err)
       \/ cls = "RLEstimator" /\ HasImage(image)
    /\ \E name \in JobNames :
          \E img \in (IF cls = "none" THEN AttachImages ELSE {image}) :
             /\ job' = Job(name, img)
             /\ last' = [op |-> "describe_training_job", args |-> [name |-> name]]
    /\ trace' = <<"describe_training_job">>
    /\ remote' = remote + RemoteCallsIn(trace')
    /\ err' = NoErr
    /\ warnings' = <<>>
    /\ init_params' = NoObject
    /\ tag_parse' = <<PyNone, PyNone>>
    /\ result' = PyNone
    /\ UNCHANGED <<cls, est, image, uploads, built>>

\* ---- RLEstimator._prepare_init_params_from_job_description(job_details) ----
RLPrepare ==
    /\ job # NoJob /\ last.op = "describe_training_job"
    /\ LET r == RLEstimator_prepare_init_params_from_job_description(job)
       IN  /\ err' = r.err
           /\ init_params' = r.init_params
           /\ tag_parse' = r.toolkit_and_version
           /\ trace' = r.trace
           /\ remote' = remote + RemoteCallsIn(r.trace)
    /\ last' = [op |-> "RLEstimator._prepare_init_params_from_job_description",
                args |-> [job_details |-> job]]
    /\ warnings' = <<>>
    /\ UNCHANGED <<cls, est, image, job, result, uploads, built>>

\* ---- MXNet._prepare_init_params_from_job_description(job_details) ----
MXNetPrepare ==
    /\ job # NoJob /\ last.op = "describe_training_job"
    /\ LET r == MXNet_prepare_init_params_from_job_description(job)
       IN  /\ err' = r.err
           /\ init_params' = r.init_params
           /\ tag_parse' = r.toolkit_and_version
           /\ trace' = r.trace
           /\ remote' = remote + RemoteCallsIn(r.trace)
    /\ last' = [op |-> "MXNet._prepare_init_params_from_job_description",
                args |-> [job_details |-> job]]
    /\ warnings' = <<>>
    /\ UNCHANGED <<cls, est, image, job, result, uploads, built>>

\* ---- ContinuousParameter(min_value, max_value, scaling_type) and ----
\* ---- IntegerParameter(min_value, max_value, scaling_type)        ----
RangeInit ==
    /\ cls = "none" /\ last.op = "none"
    /\ \E class \in {"ContinuousParameter", "IntegerParameter"},
          min_value \in NumberArgs, max_value \in NumberArgs,
          scaling_type \in ScalingTypeArgs :
          /\ cls' = class
          /\ est' = ParameterRange__init__(min_value, max_value, scaling_type)
          /\ last' = [op |-> "ParameterRange.__init__",
                      args |-> [min_value |-> min_value, max_value |-> max_value,
                                scaling_type |-> scaling_type]]
    /\ err' = NoErr
    /\ result' = PyNone
    /\ built' = last'
    /\ UNCHANGED <<warnings, trace, image, job, init_params, tag_parse, remote, uploads>>

\* ---- CategoricalParameter(values) ----
CategoricalInit ==
    /\ cls = "none" /\ last.op = "none"
    /\ \E values \in CategoricalArgs :
          /\ est' = CategoricalParameter__init__(values)
          /\ last' = [op |-> "CategoricalParameter.__init__", args |-> [values |-> values]]
    /\ cls' = "CategoricalParameter"
    /\ err' = NoErr
    /\ result' = PyNone
    /\ built' = last'
    /\ UNCHANGED <<warnings, trace, image, job, init_params, tag_parse, remote, uploads>>

\* ---- ParameterRange.is_valid(value) ----
RangeIsValid ==
    /\ cls \in {"ContinuousParameter", "IntegerParameter"}
    /\ \E value \in NumberArgs \cup {PyBool(TRUE)} :
          /\ result' = ParameterRange_is_valid(est, value)
          /\ last' = [op |-> "ParameterRange.is_valid", args |-> [value |-> value]]
    /\ err' = NoErr
    /\ UNCHANGED <<cls, est, warnings, trace, image, job, init_params, tag_parse, remote, uploads, built>>

\* ---- ParameterRange.as_tuning_range(name) ----
RangeAsTuningRange ==
    /\ cls \in {"ContinuousParameter", "IntegerParameter"}
    /\ \E name \in ParameterNames :
          /\ result' = ParameterRange_as_tuning_range(est, name)
          /\ last' = [op |-> "ParameterRange.as_tuning_range", args |-> [name |-> name]]
    /\ err' = NoErr
    /\ UNCHANGED <<cls, est, warnings, trace, image, job, init_params, tag_parse, remote, uploads, built>>

\* ---- ContinuousParameter.cast_to_type(value) and ----
\* ---- IntegerParameter.cast_to_type(value)        ----
RangeCastToType ==
    /\ cls \in {"ContinuousParameter", "IntegerParameter"}
    /\ \E value \in CastArgs :
          LET r == IF cls = "ContinuousParameter" THEN ContinuousParameter_cast_to_type(value)
                   ELSE IntegerParameter_cast_to_type(value)
          IN  /\ result' = r.value
              /\ err' = r.err
              /\ last' = [op |-> "ParameterRange.cast_to_type", args |-> [value |-> value]]
    /\ UNCHANGED <<cls, est, warnings, trace, image, job, init_params, tag_parse, remote, uploads, built>>

\* ---- CategoricalParameter.cast_to_type(value) ----
CategoricalCastToType ==
    /\ cls = "CategoricalParameter"
    /\ \E value \in CategoricalCastArgs :
          LET r == CategoricalParameter_cast_to_type(value)
          IN  /\ result' = r.value
              /\ err' = r.err
              /\ last' = [op |-> "CategoricalParameter.cast_to_type", args |-> [value |-> value]]
    /\ UNCHANGED <<cls, est, warnings, trace, image, job, init_params, tag_parse, remote, uploads, built>>

\* ---- CategoricalParameter.is_valid(value) ----
\* the value is one of the inputs or the string the last cast returned
CategoricalIsValid ==
    /\ cls = "CategoricalParameter"
    /\ \E value \in CategoricalValues
                     \cup (IF last.op = "CategoricalParameter.cast_to_type" THEN {result}
                           ELSE {}) :
          /\ result' = CategoricalParameter_is_valid(est, value)
          /\ last' = [op |-> "CategoricalParameter.is_valid", args |-> [value |-> value]]
    /\ err' = NoErr
    /\ UNCHANGED <<cls, est, warnings, trace, image, job, init_params, tag_parse, remote, uploads, built>>

\* ---- CategoricalParameter.as_tuning_range(name) ----
CategoricalAsTuningRange ==
    /\ cls = "CategoricalParameter"
    /\ \E name \in ParameterNames :
          /\ result' = CategoricalParameter_as_tuning_range(est, name)
          /\ last' = [op |-> "CategoricalParameter.as_tuning_range", args |-> [name |-> name]]
    /\ err' = NoErr
    /\ UNCHANGED <<cls, est, warnings, trace, image, job, init_params, tag_parse, remote, uploads, built>>

\* ---- CategoricalParameter.as_json_range(name) ----
CategoricalAsJsonRange ==
    /\ cls = "CategoricalParameter"
    /\ \E name \in ParameterNames :
          /\ result' = CategoricalParameter_as_json_range(est, name)
          /\ last' = [op |-> "CategoricalParameter.as_json_range", args |-> [name |-> name]]
    /\ err' = NoErr
    /\ UNCHANGED <<cls, est, warnings, trace, image, job, init_params, tag_parse, remote, uploads, built>>

\* ---- PyTorchModel(model_data, role, entry_point, image, py_version, ...) ----
PyTorchModelInit ==
    /\ cls = "none" /\ last.op = "none"
    /\ \E image_arg \in ImageArgs, py_version \in PyVersionArgs,
          framework_version \in PyTorchVersionArgs,
          model_server_workers \in WorkerArgs, env \in EnvArgs, name \in ModelNameArgs,
          key_prefix \in KeyPrefixArgs, region \in Regions :
          LET r == PyTorchModel__init__(PyStr(s_model_tar), "SageMakerRole",
                                        PyStr(s_inference_py), image_arg, py_version,
                                        framework_version, model_server_workers,
                                        [env |-> env, name |-> name,
                                         key_prefix |-> key_prefix, region_name |-> region])
          IN  /\ last' = [op |-> "PyTorchModel.__init__",
                          args |-> [image |-> image_arg, py_version |-> py_version,
                                    framework_version |-> framework_version,
                                    model_server_workers |-> model_server_workers,
                                    env |-> env, name |-> name, key_prefix |-> key_prefix,
                                    region_name |-> region]]
              /\ err' = r.err
              /\ est' = r.self
              /\ cls' = IF Raised(r.err) THEN "none" ELSE "PyTorchModel"
              /\ warnings' = r.warnings
              /\ trace' = r.trace
    /\ result' = PyNone
    /\ built' = last'
    /\ UNCHANGED <<image, job, init_params, tag_parse, remote, uploads>>

\* ---- PyTorchModel.prepare_container_def(instance_type, accelerator_type) ----
PrepareContainerDef ==
    /\ cls = "PyTorchModel"
    /\ remote < MaxRemoteCalls
    /\ \E instance_type \in InstanceTypes, accelerator_type \in AcceleratorArgs :
          LET r == prepare_container_def(est, uploads, instance_type, accelerator_type)
          IN  /\ est' = r.self
              /\ uploads' = r.store
              /\ result' = r.result
              /\ trace' = r.trace
              /\ remote' = remote + RemoteCallsIn(r.trace)
              /\ last' = [op |-> "PyTorchModel.prepare_container_def",
                          args |-> [instance_type |-> instance_type,
                                    accelerator_type |-> accelerator_type]]
    /\ err' = NoErr
    /\ warnings' = <<>>
    /\ UNCHANGED <<cls, image, job, init_params, tag_parse, built>>

Next ==
    \/ RLInit
    \/ MXNetInit
    \/ RLTrainImage
    \/ RLHyperparameters
    \/ RLCreateModel
    \/ DescribeTrainingJob
    \/ RLPrepare
    \/ MXNetPrepare
    \/ RangeInit
    \/ CategoricalInit
    \/ RangeIsValid
    \/ RangeAsTuningRange
    \/ RangeCastToType
    \/ CategoricalCastToType
    \/ CategoricalIsValid
    \/ CategoricalAsTuningRange
    \/ CategoricalAsJsonRange
    \/ PyTorchModelInit
    \/ PrepareContainerDef

Spec == Init /\ [][Next]_vars

(***************************************************************************)
(* Properties                                                              *)
(***************************************************************************)
\* the support table of rl/estimator.py lines 30-44, entry by entry
SupportedEntries ==
    { <<COACH, s_v0_10_1, TENSORFLOW, s_v1_11>>,
      <<COACH, s_v0_10,   TENSORFLOW, s_v1_11>>,
      <<COACH, s_v0_11_0, TENSORFLOW, s_v1_11>>,
      <<COACH, s_v0_11_0, MXNET,      s_v1_3>>,
      <<COACH, s_v0_11_1, TENSORFLOW, s_v1_12>>,
      <<COACH, s_v0_11,   TENSORFLOW, s_v1_12>>,
      <<COACH, s_v0_11,   MXNET,      s_v1_3>>,
      <<RAY,   s_v0_5_3,  TENSORFLOW, s_v1_11>>,
      <<RAY,   s_v0_5,    TENSORFLOW, s_v1_11>>,
      <<RAY,   s_v0_6_5,  TENSORFLOW, s_v1_12>>,
      <<RAY,   s_v0_6,    TENSORFLOW, s_v1_12>> }

IsTableEntry(toolkit, toolkit_version, framework) ==
    \E e \in SupportedEntries :
        toolkit = e[1] /\ toolkit_version = PyStr(e[2]) /\ framework = e[3]

TableValue(toolkit, toolkit_version, framework) ==
    LET e == CHOOSE x \in SupportedEntries :
                 toolkit = x[1] /\ toolkit_version = PyStr(x[2]) /\ framework = x[3]
    IN  e[4]

RLConstructed == last.op = "RLEstimator.__init__"
MXNetConstructed == last.op = "MXNet.__init__"
RLMapped == last.op = "RLEstimator._prepare_init_params_from_job_description"
MXNetMapped == last.op = "MXNet._prepare_init_params_from_job_description"
ToolkitAttributes == {"toolkit", "toolkit_version", "framework", "framework_version"}

\* C1: constructing an RLEstimator from an entry of the support table, without
\* image_name, succeeds and stores the table's framework version for the entry.
C1_SupportedEntryResolves ==
    (RLConstructed /\ ~HasImage(last.args.image_name)
       /\ IsTableEntry(last.args.toolkit, last.args.toolkit_version, last.args.framework))
    => /\ ~Raised(err)
       /\ cls = "RLEstimator"
       /\ "framework_version" \in DOMAIN est
       /\ est["framework_version"] =
              PyStr(TableValue(last.args.toolkit, last.args.toolkit_version,
                               last.args.framework))

C1_Witness ==
    /\ RLConstructed /\ ~HasImage(last.args.image_name)
    /\ last.args.toolkit = COACH
    /\ last.args.toolkit_version = PyStr(s_v0_11_1)
    /\ last.args.framework = TENSORFLOW
    /\ cls = "RLEstimator"
    /\ est["framework_version"] = PyStr(s_v1_12)

\* C2: constructing an RLEstimator without image_name from a triple that is not
\* an entry of the support table raises a configuration error; no estimator
\* exists afterwards and the base-class constructor was not called.
C2_UnsupportedTripleFails ==
    (RLConstructed /\ ~HasImage(last.args.image_name)
       /\ ~IsTableEntry(last.args.toolkit, last.args.toolkit_version, last.args.framework))
    => /\ err.type \in {"AttributeError", "ValueError"}
       /\ cls = "none"
       /\ est = NoObject
       /\ \A i \in DOMAIN trace : trace[i] # "Framework.__init__"

C2_Witness ==
    /\ RLConstructed /\ ~HasImage(last.args.image_name)
    /\ last.args.toolkit = RAY
    /\ last.args.toolkit_version = PyStr(s_v0_5_3)
    /\ last.args.framework = MXNET
    /\ err.type = "AttributeError"
    /\ err.template = "Provided '{}-{}' and '{}' combination is not supported."
    /\ cls = "none"

\* the constructor arguments that are absent: None, or empty
AbsentArgs(args) ==
    { n \in {"toolkit", "toolkit_version", "framework"} : ~Truthy(args[n]) }
FieldNames == {"toolkit", "toolkit_version", "framework"}
NamedIn(pieces) == { pieces[i] : i \in DOMAIN pieces } \cap FieldNames

MissingArgsError ==
    /\ err.type = "AttributeError"
    /\ err.template = "Please provide '{}' or 'image_name' parameter."
    /\ NamedIn(err.args) = AbsentArgs(last.args)
    /\ trace = <<>>
    /\ cls = "none"

\* C3 as stated: without image_name, whenever one of toolkit, toolkit_version,
\* framework is absent, construction raises the error that names exactly the
\* absent fields, before the support table is consulted.
C3_AnyAbsentArgIsNamed ==
    (RLConstructed /\ ~HasImage(last.args.image_name) /\ AbsentArgs(last.args) # {})
    => MissingArgsError

WellFormedArgs(args) ==
    /\ args.toolkit \in RLToolkit \cup {PyNone}
    /\ args.framework \in RLFramework \cup {PyNone}

\* C3 amended: the same, for arguments whose toolkit and framework are each
\* None or a member of their enumeration.
C3_AbsentArgsNamedWhenWellFormed ==
    (RLConstructed /\ ~HasImage(last.args.image_name) /\ AbsentArgs(last.args) # {}
       /\ WellFormedArgs(last.args))
    => MissingArgsError

C3_Witness ==
    /\ RLConstructed /\ ~HasImage(last.args.image_name)
    /\ last.args.toolkit = COACH
    /\ last.args.toolkit_version = PyNone
    /\ last.args.framework = PyNone
    /\ err.type = "AttributeError"
    /\ err.args = <<"toolkit_version", "', '", "framework">>
    /\ trace = <<>>

ImageOverrides ==
    /\ ~Raised(err)
    /\ cls = "RLEstimator"
    /\ Len(warnings) = 1
    /\ NamedIn(warnings[1].args) = FieldNames \ AbsentArgs(last.args)
    /\ DOMAIN est \cap ToolkitAttributes = {}
    /\ est["image_name"] = last.args.image_name
    /\ est["metric_definitions"] = last.args.metric_definitions
    /\ DOMAIN RLEstimator_hyperparameters(est) =
           DOMAIN last.args.hyperparameters \cup {SAGEMAKER_OUTPUT_LOCATION, SAGEMAKER_ESTIMATOR}
    /\ \A k \in DOMAIN last.args.hyperparameters :
           RLEstimator_hyperparameters(est)[k] = JsonDumps(last.args.hyperparameters[k])

\* C4 as stated: with image_name and any values of toolkit, toolkit_version,
\* framework (at least one supplied), construction succeeds, logs the warning
\* and records nothing derived from the three arguments.
C4_ImageIgnoresAnyToolkitArgs ==
    (RLConstructed /\ HasImage(last.args.image_name) /\ AbsentArgs(last.args) # FieldNames)
    => ImageOverrides

\* C4 amended: the same, for arguments whose toolkit and framework are each
\* None or a member of their enumeration (the support table is not consulted).
C4_ImageIgnoresWellFormedToolkitArgs ==
    (RLConstructed /\ HasImage(last.args.image_name) /\ AbsentArgs(last.args) # FieldNames
       /\ WellFormedArgs(last.args))
    => (ImageOverrides /\ trace = <<"Framework.__init__">>)

C4_Witness ==
    /\ RLConstructed /\ HasImage(last.args.image_name)
    /\ last.args.toolkit = RAY
    /\ last.args.toolkit_version = PyStr(s_v0_5_3)
    /\ last.args.framework = MXNET
    /\ last.args.metric_definitions = NoMetrics
    /\ cls = "RLEstimator"
    /\ Len(warnings) = 1
    /\ "toolkit" \notin DOMAIN est

\* what fw_utils reads off the image of the described job
JobFramework == framework_name_from_image(job.TrainingImage).framework
JobTag == job.TrainingImage.tag
Recognized == Truthy(JobFramework)

\* the job was trained with the image train_image derived for this estimator
OwnManagedJob ==
    /\ cls = "RLEstimator"
    /\ ~HasImage(est["image_name"])
    /\ HasImage(image)
    /\ job.TrainingImage = image

\* C5: round trip.  For an estimator built from an entry of the support table
\* the training image has the tag <toolkit><toolkit_version>-<cpu|gpu>-py3, and
\* the reverse mapping of a job trained with that image returns the original
\* toolkit, toolkit_version and framework.
C5_RoundTrip ==
    (RLMapped /\ OwnManagedJob)
    => /\ \E device \in {s_cpu, s_gpu} :
              JobTag = Tag(est["toolkit"].v \o est["toolkit_version"].v, device, s_py3)
       /\ ~Raised(err)
       /\ {"toolkit", "toolkit_version", "framework"} \subseteq DOMAIN init_params
       /\ init_params["toolkit"] = [t |-> "RLToolkit", v |-> est["toolkit"].v]
       /\ init_params["toolkit_version"] = est["toolkit_version"]
       /\ init_params["framework"] = [t |-> "RLFramework", v |-> est["framework"].v]
       /\ IsTableEntry(init_params["toolkit"], init_params["toolkit_version"],
                       init_params["framework"])

C5_Witness ==
    /\ RLMapped /\ OwnManagedJob
    /\ est["toolkit"] = PyStr(s_coach)
    /\ est["toolkit_version"] = PyStr(s_v0_11_0)
    /\ est["framework"] = PyStr(s_mxnet)
    /\ JobTag = Tag(s_coach \o s_v0_11_0, s_gpu, s_py3)
    /\ init_params["toolkit"] = COACH
    /\ init_params["toolkit_version"] = PyStr(s_v0_11_0)
    /\ init_params["framework"] = MXNET

\* the decoded (toolkit, version, framework) as an entry of the support table
DecodedIsEntry ==
    \E e \in SupportedEntries :
        /\ tag_parse[1] = PyStr(e[1].v)
        /\ tag_parse[2] = PyStr(e[2])
        /\ JobFramework = PyStr(e[3].v)

NamesTheJob ==
    /\ err.type = "ValueError"
    /\ err.template = "Training job: {} didn't use image for requested framework"
    /\ err.args = <<job.TrainingJobName>>
    /\ init_params = NoObject

\* C6: RLEstimator reverse mapping of a recognized image.  The tag
\* coach0.11-gpu-py3 yields toolkit_version 0.11; a decoded combination that
\* is not supported raises the value error naming the training job, and no
\* init params are returned.
C6_RecognizedImageDecoded ==
    (RLMapped /\ Recognized)
    => /\ (JobTag = Tag(s_coach \o s_v0_11, s_gpu, s_py3)
           /\ JobFramework \in {PyStr(s_mxnet), PyStr(s_tensorflow)})
          => (~Raised(err) /\ init_params["toolkit_version"] = PyStr(s_v0_11))
       /\ ~DecodedIsEntry => NamesTheJob
       /\ DecodedIsEntry => ~Raised(err)

C6_Witness ==
    /\ RLMapped /\ Recognized
    /\ JobTag = Tag(s_coach \o s_v0_11, s_gpu, s_py3)
    /\ JobFramework = PyStr(s_mxnet)
    /\ init_params["toolkit_version"] = PyStr(s_v0_11)
    /\ init_params["toolkit"] = COACH

C6_WitnessMismatch ==
    /\ RLMapped /\ Recognized
    /\ JobFramework = PyStr(s_pytorch)
    /\ NamesTheJob

PassedThrough ==
    /\ ~Raised(err)
    /\ init_params =
           ("image_name" :> job.TrainingImage)
           @@ Pop(Framework_prepare_init_params_from_job_description(job), "image")
    /\ "image" \notin DOMAIN init_params
    /\ DOMAIN init_params \cap
           {"py_version", "framework_version", "toolkit", "toolkit_version", "framework"} = {}

\* C7: in the MXNet and the RLEstimator reverse mapping, an image from which
\* no framework can be parsed is passed through unchanged as image_name; the
\* image key is removed, no framework-derived key is added, nothing is raised.
C7_UnrecognizedPassThrough ==
    ((RLMapped \/ MXNetMapped) /\ ~Recognized) => PassedThrough

C7_Witness ==
    /\ RLMapped /\ ~Recognized
    /\ job.TrainingImage = DockerHubImage
    /\ init_params["image_name"] = DockerHubImage

C7_WitnessMXNet ==
    /\ MXNetMapped /\ ~Recognized
    /\ job.TrainingImage = CustomImage
    /\ init_params["image_name"] = CustomImage

TagUnmatched == _toolkit_and_version_from_tag(JobTag) = <<PyNone, PyNone>>

\* C8 as stated: in the RLEstimator reverse mapping a tag that does not match
\* the managed pattern is not an error; the raw image is passed through.
C8_UnmatchedTagPassesThrough ==
    (RLMapped /\ TagUnmatched) => PassedThrough

\* C8 amended: _toolkit_and_version_from_tag returns (None, None) for such a
\* tag without raising; the raw image is passed through only when no framework
\* was parsed from the image, and when one was, the reverse mapping raises the
\* value error naming the training job.
C8_UnmatchedTagOfRecognizedImageRaises ==
    (RLMapped /\ TagUnmatched)
    => /\ ~Recognized => PassedThrough
       /\ Recognized => (tag_parse = <<PyNone, PyNone>> /\ NamesTheJob)

C8_Witness ==
    /\ RLMapped /\ TagUnmatched /\ Recognized
    /\ JobTag = s_v1_0
    /\ JobFramework = PyStr(s_mxnet)
    /\ tag_parse = <<PyNone, PyNone>>
    /\ NamesTheJob

\* the version MXNet.__init__ works with, as the numbers (major, minor)
EffectiveVersion ==
    IF Truthy(last.args.framework_version) THEN last.args.framework_version.v
    ELSE MXNET_VERSION
MajorMinor(version) == <<ParseInt(Split(version, ".")[1]), ParseInt(Split(version, ".")[2])>>
BelowNumerically(version, major, minor) ==
    \/ MajorMinor(version)[1] < major
    \/ MajorMinor(version)[1] = major /\ MajorMinor(version)[2] < minor

\* C9: with distributions given, MXNet construction fails with a configuration
\* error for every framework version numerically below 1.3 in (major, minor),
\* and succeeds for every version at or above it, 1.10 and 2.0 included.
C9_DistributionsMinimumVersionNumeric ==
    (MXNetConstructed /\ last.args.distributions.t # "NoneType")
    => IF BelowNumerically(EffectiveVersion, 1, 3)
       THEN err.type = "ValueError" /\ cls = "none"
       ELSE ~Raised(err) /\ cls = "MXNet"

ConfigurationOps ==
    {"RLEstimator.__init__", "MXNet.__init__",
     "RLEstimator._prepare_init_params_from_job_description",
     "MXNet._prepare_init_params_from_job_description"}

C10_WitnessConstruction ==
    /\ MXNetConstructed
    /\ last.args.distributions.t = "dict"
    /\ last.args.framework_version = PyStr(s_v0_12)
    /\ err.type = "ValueError"
    /\ remote = 0

(***************************************************************************)
(* Parameter ranges                                                        *)
(***************************************************************************)
NumericRanges == {"ContinuousParameter", "IntegerParameter"}
RangeChecked == last.op = "ParameterRange.is_valid"
BuiltValues ==
    IF built.args.values.t = "list" THEN built.args.values.items ELSE <<built.args.values>>

\* C11: for a continuous or an integer range, is_valid(v) is true for every v
\* with min <= v <= max and false for every v below min or above max, and the
\* call leaves every field of the range as the constructor set it.
C11_IsValidIffWithinBounds ==
    RangeChecked =>
        LET v == Halves(last.args.value)
            lo == Halves(est["min_value"])
            hi == Halves(est["max_value"])
        IN  /\ (lo <= v /\ v <= hi) => result = PyBool(TRUE)
            /\ (v < lo \/ v > hi) => result = PyBool(FALSE)
            /\ est = ParameterRange__init__(built.args.min_value, built.args.max_value,
                                            built.args.scaling_type)
            /\ cls \in NumericRanges

C11_Witness ==
    /\ RangeChecked
    /\ cls = "IntegerParameter"
    /\ est["min_value"] = PyInt(1) /\ est["max_value"] = PyInt(5)
    /\ last.args.value = PyInt(5)
    /\ result = PyBool(TRUE)

C11_WitnessOutside ==
    /\ RangeChecked
    /\ cls = "ContinuousParameter"
    /\ est["min_value"] = PyFloat(1) /\ est["max_value"] = PyInt(5)
    /\ last.args.value = PyInt(0)
    /\ result = PyBool(FALSE)

\* json.loads of the text of a scalar: a string between double quotes, true,
\* false or a run of digits
RECURSIVE WellEscaped(_)
WellEscaped(s) ==
    IF Len(s) = 0 THEN TRUE
    ELSE IF Head(s) = "\\"
    THEN Len(s) >= 2 /\ s[2] \in {"\"", "\\"} /\ WellEscaped(SubSeq(s, 3, Len(s)))
    ELSE Head(s) # "\"" /\ WellEscaped(Tail(s))

RECURSIVE JsonUnescape(_)
JsonUnescape(s) ==
    IF Len(s) = 0 THEN <<>>
    ELSE IF Head(s) = "\\" /\ Len(s) >= 2
    THEN <<s[2]>> \o JsonUnescape(SubSeq(s, 3, Len(s)))
    ELSE <<Head(s)>> \o JsonUnescape(Tail(s))

IsJsonString(text) ==
    /\ Len(text) >= 2
    /\ text[1] = "\"" /\ text[Len(text)] = "\""
    /\ WellEscaped(SubSeq(text, 2, Len(text) - 1))

IsJsonNumber(text) == Len(text) > 0 /\ \A i \in 1..Len(text) : text[i] \in Digit

IsJson(text) ==
    \/ IsJsonString(text)
    \/ IsJsonNumber(text)
    \/ text \in {<<"t", "r", "u", "e">>, <<"f", "a", "l", "s", "e">>}

json_loads(text) ==
    IF IsJsonString(text) THEN PyStr(JsonUnescape(SubSeq(text, 2, Len(text) - 1)))
    ELSE IF IsJsonNumber(text) THEN PyInt(ParseInt(text))
    ELSE PyBool(text = <<"t", "r", "u", "e">>)

JsonRanged == last.op = "CategoricalParameter.as_json_range"

\* C12: the values of as_json_range are valid JSON and decode to the values
\* that were passed to CategoricalParameter, before their string coercion,
\* for every input, integers and booleans included.
C12_JsonRangeDecodesToOriginal ==
    JsonRanged =>
        LET out == result.entries["Values"].items
        IN  /\ Len(out) = Len(BuiltValues)
            /\ \A i \in 1..Len(out) :
                   IsJson(out[i].v) /\ json_loads(out[i].v) = BuiltValues[i]

TuningRanged == last.op = "CategoricalParameter.as_tuning_range"

\* C13: the Values of CategoricalParameter(values).as_tuning_range(name) are
\* the string coercions of the input list, in the original order, as many as
\* the input has, duplicates kept; an input that is not a list yields the one
\* element list of its string coercion.
C13_TuningRangeValuesAreCoercedInput ==
    TuningRanged =>
        LET given == built.args.values
            out == result.entries["Values"].items
        IN  /\ result.entries["Name"] = last.args.name
            /\ IF given.t = "list"
               THEN /\ Len(out) = Len(given.items)
                    /\ \A i \in 1..Len(out) : out[i] = to_str(given.items[i])
               ELSE out = <<to_str(given)>>
            /\ given = PyList(<<PyInt(1), PyBool(TRUE)>>)
               => out = <<PyStr(<<"1">>), PyStr(s_True)>>
            /\ given = PyTuple(<<PyInt(1), PyInt(2)>>)
               => out = <<PyStr(<<"(", "1", ",", " ", "2", ")">>)>>

C13_Witness ==
    /\ TuningRanged
    /\ built.args.values = PyList(<<PyInt(10), PyInt(10)>>)
    /\ result.entries["Values"].items = <<PyStr(<<"1", "0">>), PyStr(<<"1", "0">>)>>

C13_WitnessNotAList ==
    /\ TuningRanged
    /\ built.args.values = PyFloat(1)
    /\ result.entries["Values"].items = <<PyStr(<<"0", ".", "5">>)>>

\* C14: every constructed continuous or integer range has min_value <=
\* max_value, and every constructed categorical range has a non-empty list of
\* values.
C14_ConstructedRangesAreWellFormed ==
    /\ cls \in NumericRanges => Halves(est["min_value"]) <= Halves(est["max_value"])
    /\ cls = "CategoricalParameter" => Len(est["values"].items) > 0

(***************************************************************************)
(* MXNet reverse mapping                                                   *)
(***************************************************************************)
\* C15: MXNet reverse mapping of a recognized image.  The historical tag 1.0
\* maps to framework_version 0.12; any other tag maps to its version, the part
\* before the device and python endings (None when the tag has no such
\* ending); py_version is the one parsed from the image.
C15_MXNetVersionFromTag ==
    (MXNetMapped /\ Recognized /\ ~Raised(err)) =>
        LET parsed == framework_name_from_image(job.TrainingImage)
            fv == init_params["framework_version"]
        IN  /\ init_params["py_version"] = parsed.py_version
            /\ init_params["py_version"] \in {PyStr(s_py2), PyStr(s_py3)}
            /\ JobTag = s_v1_0 => fv = PyStr(s_v0_12)
            /\ JobTag # s_v1_0 =>
                  /\ fv = framework_version_from_tag(JobTag)
                  /\ fv.t = "str" => \E suffix \in DeviceSuffixes : JobTag = fv.v \o suffix
                  /\ fv.t # "str" => \A suffix \in DeviceSuffixes : ~EndsWith(JobTag, suffix)

C15_Witness ==
    /\ MXNetMapped /\ Recognized /\ ~Raised(err)
    /\ JobTag = s_v1_0
    /\ init_params["framework_version"] = PyStr(s_v0_12)
    /\ init_params["py_version"] = PyStr(s_py2)

C15_WitnessCurrentTag ==
    /\ MXNetMapped /\ ~Raised(err)
    /\ JobTag = Tag(s_v1_4, s_cpu, s_py3)
    /\ init_params["framework_version"] = PyStr(s_v1_4)
    /\ init_params["py_version"] = PyStr(s_py3)

\* C16: MXNet reverse mapping of a recognized image raises the value error
\* naming the training job whenever the framework parsed from the image is not
\* mxnet, and returns init params only when it is mxnet.
C16_MXNetFrameworkMismatchRaises ==
    (MXNetMapped /\ Recognized) =>
        /\ JobFramework # PyStr(s_mxnet) => NamesTheJob
        /\ JobFramework = PyStr(s_mxnet)
           => (~Raised(err) /\ init_params # NoObject
               /\ init_params["base_job_name"] = job.TrainingJobName)

C16_Witness ==
    /\ MXNetMapped
    /\ JobFramework = PyStr(s_pytorch)
    /\ job.TrainingJobName = "neo"
    /\ err.type = "ValueError" /\ err.args = <<"neo">>

C16_WitnessMXNet ==
    /\ MXNetMapped
    /\ JobFramework = PyStr(s_mxnet)
    /\ ~Raised(err)
    /\ "framework_version" \in DOMAIN init_params

(***************************************************************************)
(* PyTorchModel                                                            *)
(***************************************************************************)
ModelConstructed == last.op = "PyTorchModel.__init__"
Prepared == last.op = "PyTorchModel.prepare_container_def"
WorkersKey == s_SAGEMAKER_MODEL_SERVER_WORKERS

\* the environment of the container without the worker count
FrameworkEnv == DictUpdate(est["env"], _framework_env_vars(est))

\* C17: the container definition of prepare_container_def has the explicit
\* image verbatim when one was given (create_image_uri is not called) and the
\* image derived from region, "pytorch", instance type, framework version,
\* python version and accelerator type otherwise; its model data is
\* model_data; its environment is the model's env overlaid with the framework
\* env vars, plus the worker count as a string exactly when
\* model_server_workers is set.
C17_ContainerDefinition ==
    Prepared =>
        /\ IF HasImage(est["image"])
           THEN /\ result.Image = est["image"]
                /\ \A i \in DOMAIN trace : trace[i] # "create_image_uri"
           ELSE /\ result.Image =
                       create_image_uri_accelerated(est["region_name"], s_pytorch,
                                                    last.args.instance_type,
                                                    est["framework_version"].v,
                                                    est["py_version"].v,
                                                    last.args.accelerator_type)
                /\ trace[1] = "create_image_uri"
        /\ result.ModelDataUrl = est["model_data"]
        /\ IF est["model_server_workers"].t # "NoneType"
           THEN result.Environment =
                    DictUpdate(FrameworkEnv,
                               WorkersKey :> PyStr(IntToStr(est["model_server_workers"].n)))
           ELSE result.Environment = FrameworkEnv

PrepareStep == last'.op = "PyTorchModel.prepare_container_def"
ConfigurationFields == {"env", "image", "framework_version", "py_version", "model_server_workers"}

\* C18: a call of prepare_container_def uploads the code exactly once, under
\* the key prefix computed from key_prefix, name and the deploy image, before
\* it returns; it leaves env, image, framework_version, py_version and
\* model_server_workers of the model as they were; a call repeating the
\* arguments of the call before it returns an equal container definition.
C18_UploadIsTheOnlyMutation ==
    [][ PrepareStep =>
          /\ Len(uploads') = Len(uploads) + 1
          /\ SubSeq(uploads', 1, Len(uploads)) = uploads
          /\ uploads'[Len(uploads')].key_prefix =
                 model_code_key_prefix(est["key_prefix"], est["name"], result'.Image)
          /\ Cardinality({ i \in DOMAIN trace' : trace'[i] = "upload" }) = 1
          /\ trace'[Len(trace')] = "upload"
          /\ remote' = remote + 1
          /\ \A f \in ConfigurationFields : est'[f] = est[f]
          /\ (Prepared /\ last'.args = last.args) => result' = result
      ]_vars

C18_Witness ==
    /\ Prepared
    /\ Len(uploads) = 2
    /\ uploads[1] = uploads[2]
    /\ est["env"] = built.args.env
    /\ est["env"] # EmptyEnv
    /\ result.Environment # est["env"]

(***************************************************************************)
(* Compatibility warnings                                                  *)
(***************************************************************************)
DeprecatedPython == [template |-> "python_deprecation_warning", args |-> <<s_pytorch>>]

\* the construction that differs from the last one only in what triggers a warning
QuietMXNet ==
    MXNet__init__("train.py", "", last.args.hyperparameters, PyStr(s_py3),
                  IF last.args.framework_version.t = "NoneType" THEN PyStr(MXNET_VERSION)
                  ELSE last.args.framework_version,
                  last.args.image_name, last.args.distributions,
                  [train_instance_type |-> "ml.c4.xlarge", output_path |-> "s3://bucket/output"])

QuietRL ==
    RLEstimator__init__("train.py", PyNone, PyNone, PyNone, "", last.args.hyperparameters,
                        last.args.image_name, last.args.metric_definitions,
                        [train_instance_type |-> est["train_instance_type"],
                         output_path |-> "s3://bucket/output"])

QuietPyTorchModel ==
    PyTorchModel__init__(PyStr(s_model_tar), "SageMakerRole", PyStr(s_inference_py),
                         last.args.image, PyStr(s_py3), last.args.framework_version,
                         last.args.model_server_workers,
                         [env |-> last.args.env, name |-> last.args.name,
                          key_prefix |-> last.args.key_prefix,
                          region_name |-> last.args.region_name])

C19_WitnessPyTorchModel ==
    /\ ModelConstructed
    /\ warnings = <<DeprecatedPython>>
    /\ cls = "PyTorchModel"
    /\ est["py_version"] = PyStr(s_py2)

C19_WitnessRL ==
    /\ RLConstructed
    /\ Len(warnings) = 1
    /\ last.args.toolkit = RAY /\ last.args.framework = MXNET
    /\ cls = "RLEstimator"

(***************************************************************************)
(* RLEstimator metric definitions                                          *)
(***************************************************************************)
MetricNames(m) == [i \in 1..Len(m.v) |-> m.v[i].Name]

\* C20: an RLEstimator constructed without image_name and without metric
\* definitions of the caller gets the defaults of its toolkit: reward-training
\* and reward-testing for COACH, episode_reward_mean and episode_reward_max
\* for RAY.  In every other case the metric definitions of the caller are
\* stored unchanged.
C20_DefaultMetricDefinitions ==
    (RLConstructed /\ ~Raised(err)) =>
        IF ~HasImage(last.args.image_name) /\ ~HasMetrics(last.args.metric_definitions)
        THEN /\ last.args.toolkit = COACH
                => MetricNames(est["metric_definitions"]) = <<"reward-training", "reward-testing">>
             /\ last.args.toolkit = RAY
                => MetricNames(est["metric_definitions"])
                       = <<"episode_reward_mean", "episode_reward_max">>
             /\ last.args.toolkit \in RLToolkit
        ELSE est["metric_definitions"] = last.args.metric_definitions

C20_Witness ==
    /\ RLConstructed /\ ~Raised(err)
    /\ last.args.toolkit = RAY
    /\ last.args.metric_definitions = NoMetrics
    /\ MetricNames(est["metric_definitions"]) = <<"episode_reward_mean", "episode_reward_max">>

C20_WitnessCallerSupplied ==
    /\ RLConstructed /\ ~Raised(err)
    /\ last.args.toolkit = COACH
    /\ ~HasImage(last.args.image_name)
    /\ last.args.metric_definitions = CustomMetrics
    /\ est["metric_definitions"] = CustomMetrics

(***************************************************************************)
(* cast_to_type                                                            *)
(***************************************************************************)
RangeCast == last.op = "ParameterRange.cast_to_type"
CategoricalCast == last.op = "CategoricalParameter.cast_to_type"
IsNumber(value) == value.t \in {"int", "bool", "float"}

\* a string that spells a number: digits with a sign, blanks or a point
SpellsNumber(value) ==
    /\ value.t = "str"
    /\ \E i \in 1..Len(value.v) : value.v[i] \in Digit
    /\ \A i \in 1..Len(value.v) : value.v[i] \in Digit \cup {"-", "+", ".", " "}
    /\ Cardinality({ i \in 1..Len(value.v) : value.v[i] = "." }) <= 1
SpellsInteger(value) == SpellsNumber(value) /\ \A i \in 1..Len(value.v) : value.v[i] # "."

\* C21 as stated: for every input value the continuous cast yields a float,
\* the integer cast yields an int and fails with a TypeError on an input that
\* is not numeric, and the categorical cast yields the string coercion and
\* never fails.
C21_CastToTypeForEveryInput ==
    /\ (RangeCast /\ cls = "ContinuousParameter") => ~Raised(err) /\ result.t = "float"
    /\ (RangeCast /\ cls = "IntegerParameter") =>
          IF IsNumber(last.args.value) \/ SpellsNumber(last.args.value)
          THEN ~Raised(err) /\ result.t = "int"
          ELSE err.type = "TypeError"
    /\ CategoricalCast => ~Raised(err) /\ result = to_str(last.args.value)

\* C21 amended: the continuous cast yields a float of the same value for a
\* number and for a string that spells a number; the integer cast yields an
\* int, the number cut off towards zero, for a number and for a string that
\* spells an integer.  Both fail with a ValueError on any other string and
\* with a TypeError on an input that is neither a number nor a string.  The
\* categorical cast yields the string coercion and never fails.
C21_CastToTypeConversions ==
    /\ (RangeCast /\ cls = "ContinuousParameter") =>
          LET value == last.args.value
          IN  IF IsNumber(value)
              THEN ~Raised(err) /\ result.t = "float" /\ Halves(result) = Halves(value)
              ELSE IF SpellsNumber(value) THEN ~Raised(err) /\ result.t = "float"
              ELSE IF value.t = "str" THEN err.type = "ValueError"
              ELSE err.type = "TypeError"
    /\ (RangeCast /\ cls = "IntegerParameter") =>
          LET value == last.args.value
          IN  IF IsNumber(value)
              THEN /\ ~Raised(err) /\ result.t = "int"
                   /\ IF Halves(value) >= 0
                      THEN 2 * result.n <= Halves(value) /\ Halves(value) < 2 * result.n + 2
                      ELSE 2 * result.n >= Halves(value) /\ Halves(value) > 2 * result.n - 2
              ELSE IF SpellsInteger(value)
              THEN ~Raised(err) /\ result.t = "int" /\ IntToStr(result.n) = Strip(value.v)
              ELSE IF value.t = "str" THEN err.type = "ValueError"
              ELSE err.type = "TypeError"
    /\ RangeCast => (Raised(err) <=> result = PyNone)
    /\ CategoricalCast =>
          ~Raised(err) /\ result.t = "str" /\ result = to_str(last.args.value)

C21_Witness ==
    /\ RangeCast /\ cls = "IntegerParameter"
    /\ last.args.value = PyStr(<<"a">>)
    /\ err.type = "ValueError"

C21_WitnessContinuous ==
    /\ RangeCast /\ cls = "ContinuousParameter"
    /\ last.args.value = PyStr(<<"1", ".", "5">>)
    /\ result = PyFloat(3)

C21_WitnessTypeError ==
    /\ RangeCast /\ cls = "IntegerParameter"
    /\ last.args.value = PyNone
    /\ err.type = "TypeError"

C21_WitnessCategorical ==
    /\ CategoricalCast
    /\ last.args.value = PyNone
    /\ result = PyStr(s_None)

(***************************************************************************)
(* The RLEstimator after construction                                      *)
(***************************************************************************)
TrainImageReturned == last.op = "RLEstimator.train_image"
ModelCreated == last.op = "RLEstimator.create_model"

\* C22: a constructed RLEstimator has image_name set, or has toolkit,
\* toolkit_version, framework and framework_version set with
\* framework_version the entry of TOOLKIT_FRAMEWORK_VERSION_MAP.  Whatever
\* train_image, hyperparameters and create_model calls came before, none of
\* them ends reading an unset attribute, and train_image returns image_name
\* itself when it is set and otherwise the image of framework rl-<framework>,
\* version <toolkit><toolkit_version> and py3.
C22_RLEstimatorInvariant ==
    cls = "RLEstimator" =>
        /\ \/ HasImage(est["image_name"])
           \/ /\ ToolkitAttributes \subseteq DOMAIN est
              /\ \A a \in ToolkitAttributes : Truthy(est[a])
              /\ \E e \in SupportedEntries :
                     /\ est["toolkit"] = PyStr(e[1].v)
                     /\ est["toolkit_version"] = PyStr(e[2])
                     /\ est["framework"] = PyStr(e[3].v)
                     /\ est["framework_version"] = PyStr(e[4])
        /\ last.op \in RLEstimatorOps => err # UnsetAttribute
        /\ TrainImageReturned =>
              /\ ~Raised(err)
              /\ IF HasImage(est["image_name"])
                 THEN image = est["image_name"]
                 ELSE /\ image.registry = EcrRegistry(last.args.region)
                      /\ image.repo = s_sagemaker_ \o s_rl_ \o est["framework"].v
                      /\ image.tag = est["toolkit"].v \o est["toolkit_version"].v
                                     \o <<"-">> \o DeviceOf(est["train_instance_type"])
                                     \o <<"-">> \o s_py3

C22_Witness ==
    /\ TrainImageReturned
    /\ ~HasImage(est["image_name"])
    /\ image.repo = <<"s", "a", "g", "e", "m", "a", "k", "e", "r", "-", "r", "l", "-",
                      "m", "x", "n", "e", "t">>
    /\ image.tag = <<"c", "o", "a", "c", "h", "0", ".", "1", "1", "-", "c", "p", "u", "-",
                     "p", "y", "3">>

C22_WitnessAfterOtherCalls ==
    /\ ModelCreated
    /\ ~HasImage(est["image_name"])
    /\ HasImage(image)
    /\ result.class = "MXNetModel"

C22_WitnessImageName ==
    /\ TrainImageReturned
    /\ image = CustomImage
    /\ "toolkit" \notin DOMAIN est

(***************************************************************************)
(* RLEstimator.create_model                                                *)
(***************************************************************************)
NoEntryPoint ==
    last.args.entry_point = "" /\ (last.args.source_dir # "" \/ last.args.dependencies # <<>>)

CreateModelSteps ==
    IF NoEntryPoint THEN err.type = "AttributeError" /\ result = NoModel
    ELSE IF HasImage(est["image_name"])
    THEN ~Raised(err) /\ result.class = "FrameworkModel" /\ result.args.image = est["image_name"]
    ELSE IF est["toolkit"] = PyStr(s_ray)
    THEN err.type = "NotImplementedError" /\ result = NoModel
    ELSE IF est["framework"] = PyStr(s_tensorflow)
    THEN /\ ~Raised(err)
         /\ result.class = "tensorflow.serving.Model"
         /\ result.args.framework_version = est["framework_version"]
         /\ "py_version" \notin DOMAIN result.args
    ELSE /\ est["framework"] = PyStr(s_mxnet)
         /\ ~Raised(err)
         /\ result.class = "MXNetModel"
         /\ result.args.py_version = s_py3
         /\ result.args.framework_version = est["framework_version"]

C23_WitnessRay ==
    /\ ModelCreated
    /\ ~HasImage(est["image_name"])
    /\ est["toolkit"] = PyStr(s_ray)
    /\ ~NoEntryPoint
    /\ err.type = "NotImplementedError"

C23_WitnessFrameworkModel ==
    /\ ModelCreated
    /\ built.args.toolkit = RAY
    /\ result.class = "FrameworkModel"

C23_WitnessTensorFlow ==
    /\ ModelCreated
    /\ result.class = "tensorflow.serving.Model"
    /\ result.args.framework_version = PyStr(s_v1_12)

(***************************************************************************)
(* CategoricalParameter: is_valid after cast_to_type                       *)
(***************************************************************************)
CategoricalChecked == last.op = "CategoricalParameter.is_valid"
BuiltFromList == cls = "CategoricalParameter" /\ built.args.values.t = "list"
CastOfAnElement == \E i \in 1..Len(BuiltValues) : last.args.value = to_str(BuiltValues[i])

\* C24: for a CategoricalParameter built from a list, is_valid of the cast of
\* any element of that list is true; is_valid tests membership in the stored
\* strings, so is_valid of a value is true only when the value equals one of
\* them.
C24_CastOfElementIsValid ==
    BuiltFromList =>
        /\ \A i \in 1..Len(BuiltValues) :
              LET cast == CategoricalParameter_cast_to_type(BuiltValues[i])
              IN  ~Raised(cast.err) /\ CategoricalParameter_is_valid(est, cast.value) = PyBool(TRUE)
        /\ CategoricalChecked =>
              /\ CastOfAnElement => result = PyBool(TRUE)
              /\ result = PyBool(TRUE) <=>
                    \E i \in 1..Len(est["values"].items) :
                        est["values"].items[i] = last.args.value

C24_Witness ==
    /\ BuiltFromList /\ CategoricalChecked
    /\ BuiltValues = <<PyInt(10), PyBool(TRUE)>>
    /\ last.args.value = PyStr(<<"1", "0">>)
    /\ result = PyBool(TRUE)

C24_WitnessNotCast ==
    /\ BuiltFromList /\ CategoricalChecked
    /\ BuiltValues = <<PyInt(10), PyBool(TRUE)>>
    /\ last.args.value = PyInt(10)
    /\ result = PyBool(FALSE)

====
